---- MODULE Spec2Model ----
(***************************************************************************)
(* LibraryManager of the H5P library (src/src/library-manager.js) over a   *)
(* library storage backend.  The manager's methods are translated from the *)
(* source; the storage backend and the Library value type are not part of  *)
(* the sources at hand and follow their documented contract.               *)
(***************************************************************************)
EXTENDS Integers, Sequences, FiniteSets, TLC

\* ------------------------------------------------------------------ bounds
\* Highest patch version of a staged or stored library.
MaxPatch == 2
\* Highest id the storage hands out (the number of records it can hold).
MaxId == 2
\* Largest number of records of a drawn storage listing (query specification).
MaxRecs == 2

\* ------------------------------------------------------------------ values
Callers == {1, 2}

MachineNames == {"H5P.A", "H5P.B"}

\* Lexical rank of a machine name (String.localeCompare on these names).
NameRank(n) ==
    IF n = "H5P.A" THEN 1 ELSE 2

Majors == {1}
Minors == {0, 1}
Patches == 1..MaxPatch
Ids == 1..MaxId

\* The files a staged library.json may preload.
AssetPaths == {"a.js", "a.css"}

\* A library.json that cannot be streamed or parsed.
NoJson ==
    [machineName |-> "", majorVersion |-> 0, minorVersion |-> 0,
     patchVersion |-> 0, preloadedJs |-> <<>>, preloadedCss |-> <<>>,
     runnable |-> 0, title |-> ""]

\* Library.createFromMetadata: the identity of a library.json (no id yet).
createFromMetadata(metadata) ==
    [machineName |-> metadata.machineName,
     majorVersion |-> metadata.majorVersion,
     minorVersion |-> metadata.minorVersion,
     patchVersion |-> metadata.patchVersion,
     id |-> 0]

NoLibrary ==
    [machineName |-> "", majorVersion |-> 0, minorVersion |-> 0,
     patchVersion |-> 0, id |-> 0]

Range(s) ==
    {s[i] : i \in DOMAIN s}

Sign(n) ==
    IF n < 0 THEN -1 ELSE IF n > 0 THEN 1 ELSE 0

\* Library.compare: machine name, then major, minor and patch version.
compare(a, b) ==
    IF a.machineName # b.machineName
    THEN Sign(NameRank(a.machineName) - NameRank(b.machineName))
    ELSE IF a.majorVersion # b.majorVersion
    THEN Sign(a.majorVersion - b.majorVersion)
    ELSE IF a.minorVersion # b.minorVersion
    THEN Sign(a.minorVersion - b.minorVersion)
    ELSE Sign(a.patchVersion - b.patchVersion)

\* Library.compareVersions: major, minor and patch version only.
compareVersions(a, b) ==
    IF a.majorVersion # b.majorVersion
    THEN Sign(a.majorVersion - b.majorVersion)
    ELSE IF a.minorVersion # b.minorVersion
    THEN Sign(a.minorVersion - b.minorVersion)
    ELSE Sign(a.patchVersion - b.patchVersion)

\* The comparator an Array.sort call is given: "compare" or "compareVersions".
Cmp(mode, a, b) ==
    IF mode = "compare" THEN compare(a, b) ELSE compareVersions(a, b)

\* Array.prototype.sort on a short array: a stable insertion sort.
RECURSIVE InsertSorted(_, _, _)
InsertSorted(s, x, mode) ==
    IF s = <<>> THEN <<x>>
    ELSE IF Cmp(mode, s[Len(s)], x) <= 0 THEN Append(s, x)
    ELSE Append(InsertSorted(SubSeq(s, 1, Len(s) - 1), x, mode), s[Len(s)])

RECURSIVE ArraySort(_, _)
ArraySort(s, mode) ==
    IF s = <<>> THEN <<>>
    ELSE InsertSorted(ArraySort(SubSeq(s, 1, Len(s) - 1), mode), s[Len(s)], mode)

\* ------------------------------------------------------------------ state
VARIABLES
    libs,       \* storage: the installed records [machineName, majorVersion, minorVersion, id]
    json,       \* storage: library.json of each id (NoJson: none readable)
    files,      \* storage: the other files of each id
    pc,         \* per caller: position inside installFromDirectory
    staging,    \* per caller: the staging directory of the call
    lib,        \* per caller: the Library object (libraryInfo) of the call
    path,       \* per caller: branch taken: "update", "install", "skip"
    pend,       \* per caller: addLibraryFile calls issued and not yet settled
    result,     \* per caller: "none", "true", "false", "raised"
    err,        \* per caller: the error raised
    fault,      \* per caller: the first storage step that raised
    log,        \* per caller: storage calls made by the call, in order
    prePatches, \* per caller: patches installed for the staged line at the decision
    again,      \* per caller: the call repeats a fresh install that returned true
    preId,      \* per caller: the id getId gave for the staged line at the decision
    preFiles,   \* per caller: the files stored for the staged line at the decision
    value,      \* per caller: the value a query returned
    removeFailed, \* a removeLibrary call has raised
    kv,         \* the configuration storage: the value saved under each setting name
    config      \* per caller: the fields of its H5PEditorConfig object

storageVars == <<libs, json, files>>
callVars == <<pc, staging, lib, path, pend, result, err, fault, log, prePatches,
              again, preId, preFiles, value>>
vars == <<libs, json, files, pc, staging, lib, path, pend, result, err,
          fault, log, prePatches, again, preId, preFiles, value, removeFailed, kv, config>>


\* ------------------------------------------------------- H5PEditorConfig
\* JavaScript values are written as their literals: "0", "false", "''",
\* "'local'", "undefined".

\* The settings load and save go through, in their order.
SettingOrder ==
    <<"fetchingDisabled", "uuid", "siteType", "sendUsageStatistics",
      "contentTypeCacheRefreshInterval", "enableLrsContentTypes">>

UserSettings ==
    Range(SettingOrder)

\* The settings load and save do not touch.
FixedSettings ==
    {"platformName", "platformVersion", "h5pVersion", "coreApiVersion",
     "hubRegistrationEndpoint", "hubContentTypesEndpoint", "lrsContentTypes"}

\* The fields the constructor sets.
Defaults ==
    [name \in UserSettings \cup FixedSettings |->
        CASE name = "platformName" -> "'H5P-Editor-NodeJs'"
          [] name = "platformVersion" -> "'0.1'"
          [] name = "h5pVersion" -> "'1.22'"
          [] name = "coreApiVersion" -> "{ major: 1, minor: 19 }"
          [] name = "fetchingDisabled" -> "0"
          [] name = "uuid" -> "''"
          [] name = "siteType" -> "'local'"
          [] name = "sendUsageStatistics" -> "false"
          [] name = "hubRegistrationEndpoint" -> "'https://api.h5p.org/v1/sites'"
          [] name = "hubContentTypesEndpoint" -> "'https://api.h5p.org/v1/content-types/'"
          [] name = "contentTypeCacheRefreshInterval" -> "86400000"
          [] name = "enableLrsContentTypes" -> "true"
          [] name = "lrsContentTypes" -> "['H5P.Questionnaire', 'H5P.FreeTextQuestion']"]

\* No config object constructed.
NoConfig ==
    [name \in UserSettings \cup FixedSettings |-> "undefined"]

\* The values JavaScript takes for false in a condition.
Falsy ==
    {"undefined", "null", "false", "0", "''", "NaN"}

\* a || b
Or(a, b) ==
    IF a \in Falsy THEN b ELSE a

\* storage.load: the value saved under the name, undefined when none was.
storageLoad(K, name) ==
    K[name]

\* storage.save: the value is kept under the name.
storageSave(K, name, v) ==
    [K EXCEPT ![name] = v]

\* loadSettingFromStorage: the field after the call.
loadSettingFromStorage(K, cfg, name) ==
    [cfg EXCEPT ![name] = Or(storageLoad(K, name), cfg[name])]

\* saveSettingToStorage: the storage after the call.
saveSettingToStorage(K, cfg, name) ==
    storageSave(K, name, cfg[name])

RECURSIVE loadFrom(_, _, _)
\* load from its i-th loadSettingFromStorage call on.
loadFrom(K, cfg, i) ==
    IF i > Len(SettingOrder) THEN cfg
    ELSE loadFrom(K, loadSettingFromStorage(K, cfg, SettingOrder[i]), i + 1)

\* load: the config object after the six settings were loaded.
load(K, cfg) ==
    loadFrom(K, cfg, 1)

RECURSIVE saveFrom(_, _, _)
\* save from its i-th saveSettingToStorage call on.
saveFrom(K, cfg, i) ==
    IF i > Len(SettingOrder) THEN K
    ELSE saveFrom(saveSettingToStorage(K, cfg, SettingOrder[i]), cfg, i + 1)

\* save: the storage after the six settings were saved.
save(K, cfg) ==
    saveFrom(K, cfg, 1)


\* ------------------------------------------------------- storage contract
SameLine(a, b) ==
    /\ a.machineName = b.machineName
    /\ a.majorVersion = b.majorVersion
    /\ a.minorVersion = b.minorVersion

MinOf(S) ==
    CHOOSE x \in S : \A y \in S : x <= y

\* Sequence of the elements of a set of ids, ascending.
RECURSIVE IdsToSeq(_)
IdsToSeq(S) ==
    IF S = {} THEN <<>>
    ELSE <<MinOf(S)>> \o IdsToSeq(S \ {MinOf(S)})

\* storage.getId: the id of the installed record of the library's
\* machine name, major and minor version; 0 when there is none.
storageGetId(L, library) ==
    LET hit == {r.id : r \in {x \in L : SameLine(x, library)}}
    IN  IF hit = {} THEN 0 ELSE MinOf(hit)

\* The record a storage call addresses: a record the storage handed out is
\* found by its id, an identity built from metadata by its line.
Resolve(L, library) ==
    IF library.id # 0
    THEN IF \E r \in L : r.id = library.id THEN library.id ELSE 0
    ELSE storageGetId(L, library)

\* storage.getInstalled(...machineNames): the records, in storage order,
\* of the given machine names (of all, when none is given).
storageGetInstalled(L, names) ==
    LET byId == [i \in {r.id : r \in L} |-> CHOOSE r \in L : r.id = i]
        all == IdsToSeq({r.id : r \in L})
        recs == [k \in DOMAIN all |->
                    [machineName |-> byId[all[k]].machineName,
                     majorVersion |-> byId[all[k]].majorVersion,
                     minorVersion |-> byId[all[k]].minorVersion,
                     patchVersion |-> 0,
                     id |-> all[k]]]
    IN  IF names = {} THEN recs
        ELSE SelectSeq(recs, LAMBDA r : r.machineName \in names)

\* storage.fileExists.
storageFileExists(L, F, library, file) ==
    LET t == Resolve(L, library)
    IN  t # 0 /\ file \in F[t]

\* storage.getFileStream of library.json, parsed: NoJson when it fails.
storageLibraryJson(L, J, library) ==
    LET t == Resolve(L, library)
    IN  IF t = 0 THEN NoJson ELSE J[t]

\* The ids no record of the storage has.
FreeIds(L) ==
    {i \in Ids : \A r \in L : r.id # i}

\* storage.installLibrary: a new record with the given id and its metadata.
storageInstallLibrary(L, id, metadata) ==
    L \cup {[machineName |-> metadata.machineName,
             majorVersion |-> metadata.majorVersion,
             minorVersion |-> metadata.minorVersion,
             id |-> id]}

\* storage.removeLibrary: the record goes, with its metadata and files.
storageRemoveLibrary(L, library) ==
    {r \in L : r.id # Resolve(L, library)}


\* ------------------------------------------------------- LibraryManager
\* What loadLibrary returns for an unreadable or absent library.json.
Undefined ==
    [machineName |-> "", majorVersion |-> 0, minorVersion |-> 0,
     patchVersion |-> 0, preloadedJs |-> <<>>, preloadedCss |-> <<>>,
     runnable |-> 0, title |-> "", libraryId |-> 0]

\* Faulty variant of getId: the major and minor version are ignored as well.
getIdByName(L, library) ==
    LET hit == {r.id : r \in {x \in L : x.machineName = library.machineName}}
    IN  IF hit = {} THEN 0 ELSE MinOf(hit)

\* getId: delegates to the storage; the patch version is ignored.
getId(L, library) ==
    storageGetId(L, library)

\* Faulty variant of loadLibrary: the id is not attached to the metadata.
loadLibraryNoId(L, J, library) ==
    LET m == storageLibraryJson(L, J, library)
    IN  IF m = NoJson THEN Undefined
        ELSE [machineName |-> m.machineName, majorVersion |-> m.majorVersion,
              minorVersion |-> m.minorVersion, patchVersion |-> m.patchVersion,
              preloadedJs |-> m.preloadedJs, preloadedCss |-> m.preloadedCss,
              runnable |-> m.runnable, title |-> m.title,
              libraryId |-> 0]

\* The value loadLibrary returns for the library.json m it read and the id
\* getId gave: m with libraryId attached, Undefined when reading m raised.
libraryMetadata(m, id) ==
    IF m = NoJson THEN Undefined
    ELSE [machineName |-> m.machineName, majorVersion |-> m.majorVersion,
          minorVersion |-> m.minorVersion, patchVersion |-> m.patchVersion,
          preloadedJs |-> m.preloadedJs, preloadedCss |-> m.preloadedCss,
          runnable |-> m.runnable, title |-> m.title,
          libraryId |-> id]

\* loadLibrary: the parsed library.json with libraryId attached, Undefined
\* when the file cannot be read or parsed.
loadLibrary(L, J, library) ==
    libraryMetadata(storageLibraryJson(L, J, library), getId(L, library))

\* Faulty variant of getInstalledRaises: a record loadLibrary cannot load is
\* passed over.
getInstalledSkips(L, J, names) ==
    FALSE

\* getInstalled raises (a property read on undefined) when loadLibrary
\* returns Undefined for a record of the listing.
getInstalledRaises(L, J, names) ==
    LET recs == storageGetInstalled(L, names)
    IN  \E k \in DOMAIN recs : loadLibrary(L, J, recs[k]) = Undefined

\* Faulty variant of getInstalled: the refreshed records are grouped in
\* storage order, without the sort.
getInstalledUnsorted(L, J, names) ==
    LET recs == storageGetInstalled(L, names)
        fresh == [k \in DOMAIN recs |->
                    [machineName |-> recs[k].machineName,
                     majorVersion |-> recs[k].majorVersion,
                     minorVersion |-> recs[k].minorVersion,
                     patchVersion |-> loadLibrary(L, J, recs[k]).patchVersion,
                     id |-> loadLibrary(L, J, recs[k]).libraryId,
                     runnable |-> loadLibrary(L, J, recs[k]).runnable,
                     title |-> loadLibrary(L, J, recs[k]).title]]
    IN  [n \in {fresh[k].machineName : k \in DOMAIN fresh} |->
            SelectSeq(fresh, LAMBDA r : r.machineName = n)]

\* Faulty variant of getInstalled: the patch version of the listing is kept
\* instead of the one of library.json.
getInstalledStalePatch(L, J, names) ==
    LET recs == storageGetInstalled(L, names)
        fresh == [k \in DOMAIN recs |->
                    [machineName |-> recs[k].machineName,
                     majorVersion |-> recs[k].majorVersion,
                     minorVersion |-> recs[k].minorVersion,
                     patchVersion |-> recs[k].patchVersion,
                     id |-> loadLibrary(L, J, recs[k]).libraryId,
                     runnable |-> loadLibrary(L, J, recs[k]).runnable,
                     title |-> loadLibrary(L, J, recs[k]).title]]
        sorted == ArraySort(fresh, "compare")
    IN  [n \in {sorted[k].machineName : k \in DOMAIN sorted} |->
            SelectSeq(sorted, LAMBDA r : r.machineName = n)]

\* The record getInstalled makes of a listed record and what loadLibrary
\* returned for it.
newLib(oldLib, info) ==
    [machineName |-> oldLib.machineName,
     majorVersion |-> oldLib.majorVersion,
     minorVersion |-> oldLib.minorVersion,
     patchVersion |-> info.patchVersion,
     id |-> info.libraryId,
     runnable |-> info.runnable,
     title |-> info.title]

\* The listed records, each refreshed from its library.json.
refresh(L, J, recs) ==
    [k \in DOMAIN recs |-> newLib(recs[k], loadLibrary(L, J, recs[k]))]

\* The libraries grouped by machine name, in their order.
returnObject(libraries) ==
    [n \in {libraries[k].machineName : k \in DOMAIN libraries} |->
        SelectSeq(libraries, LAMBDA r : r.machineName = n)]

\* getInstalled: the records of the listing, each refreshed from its
\* library.json, sorted by compare and grouped by machine name.
getInstalled(L, J, names) ==
    returnObject(ArraySort(refresh(L, J, storageGetInstalled(L, names)), "compare"))

\* Faulty variant of isPatchedLibrary: an equal patch counts as a patch too.
isPatchedLibraryOrEqual(L, J, library) ==
    LET wrapped == getInstalled(L, J, {library.machineName})
    IN  IF library.machineName \notin DOMAIN wrapped THEN FALSE
        ELSE LET infos == wrapped[library.machineName]
                 hit == {x \in DOMAIN infos :
                            /\ infos[x].majorVersion = library.majorVersion
                            /\ infos[x].minorVersion = library.minorVersion}
             IN  IF hit = {} THEN FALSE
                 ELSE infos[MinOf(hit)].patchVersion <= library.patchVersion

\* Faulty variant of isPatchedLibrary: the operands of the comparison swapped.
isPatchedLibraryReversed(L, J, library) ==
    LET wrapped == getInstalled(L, J, {library.machineName})
    IN  IF library.machineName \notin DOMAIN wrapped THEN FALSE
        ELSE LET infos == wrapped[library.machineName]
                 hit == {x \in DOMAIN infos :
                            /\ infos[x].majorVersion = library.majorVersion
                            /\ infos[x].minorVersion = library.minorVersion}
             IN  IF hit = {} THEN FALSE
                 ELSE library.patchVersion < infos[MinOf(hit)].patchVersion

\* isPatchedLibrary: the loop stops at the first record of the library's
\* major and minor version and compares its patch version.
isPatchedLibrary(L, J, library) ==
    LET wrapped == getInstalled(L, J, {library.machineName})
    IN  IF library.machineName \notin DOMAIN wrapped THEN FALSE
        ELSE LET infos == wrapped[library.machineName]
                 hit == {x \in DOMAIN infos :
                            /\ infos[x].majorVersion = library.majorVersion
                            /\ infos[x].minorVersion = library.minorVersion}
             IN  IF hit = {} THEN FALSE
                 ELSE infos[MinOf(hit)].patchVersion < library.patchVersion

\* Faulty variant of libraryHasUpgrade: the first element of the sorted list is
\* taken for the highest.
libraryHasUpgradeFirst(L, J, library) ==
    LET wrapped == getInstalled(L, J, {library.machineName})
    IN  IF library.machineName \notin DOMAIN wrapped THEN FALSE
        ELSE LET all == ArraySort(wrapped[library.machineName], "compareVersions")
             IN  compareVersions(all[1], library) < 0

\* libraryHasUpgrade: false without a record of the machine name, else
\* whether the last record sorted by compareVersions is below the library.
libraryHasUpgrade(L, J, library) ==
    LET wrapped == getInstalled(L, J, {library.machineName})
    IN  IF library.machineName \notin DOMAIN wrapped THEN FALSE
        ELSE LET all == ArraySort(wrapped[library.machineName], "compareVersions")
                 highestLocalLibVersion == all[Len(all)]
             IN  compareVersions(highestLocalLibVersion, library) < 0


\* Staged file names glob's pattern **/*.* does not match (no dot).
NoDotPaths == {"LICENSE"}

\* glob(`${fromDirectory}/**/*.*`): the staged files with a dot in the name.
glob(dirFiles) ==
    {f \in dirFiles : f \notin NoDotPaths}

\* _copyLibraryFiles: the files handed to storage.addLibraryFile, every
\* globbed file but library.json.
_copyLibraryFiles(dirFiles) ==
    {f \in glob(dirFiles) : f # "library.json"}

NoErr ==
    [kind |-> "none", missing |-> <<>>]

\* The TypeError of reading a property of undefined.
TypeError ==
    [kind |-> "type", missing |-> <<>>]

\* No value returned (yet).
NoValue ==
    [kind |-> "none", names |-> {}, installed |-> <<>>,
     metadata |-> Undefined, codes |-> <<>>]

\* Faulty variant of _checkFiles: only the first missing file is reported.
_checkFilesFirst(L, F, library, requiredFiles) ==
    LET missing == SelectSeq(requiredFiles,
                             LAMBDA f : ~storageFileExists(L, F, library, f))
    IN  IF missing = <<>> THEN <<>> ELSE <<missing[1]>>

\* _checkFiles: the required files that are missing in storage, in order
\* (the error message lists them all); empty when none is missing.
_checkFiles(L, F, library, requiredFiles) ==
    SelectSeq(requiredFiles, LAMBDA f : ~storageFileExists(L, F, library, f))

\* Faulty variant of _checkConsistency: the preloadedCss files are not checked.
_checkConsistencyJsOnly(L, J, F, library) ==
    IF getId(L, library) = 0
    THEN [kind |-> "notInstalled", missing |-> <<>>]
    ELSE LET metadata == storageLibraryJson(L, J, library)
         IN  IF metadata = NoJson
             THEN [kind |-> "unreadable", missing |-> <<>>]
             ELSE IF _checkFiles(L, F, library, metadata.preloadedJs) # <<>>
             THEN [kind |-> "missing",
                   missing |-> _checkFiles(L, F, library, metadata.preloadedJs)]
             ELSE [kind |-> "ok", missing |-> <<>>]

\* Faulty variant of _checkConsistency: the id is not looked up first.
_checkConsistencyNoIdCheck(L, J, F, library) ==
    LET metadata == storageLibraryJson(L, J, library)
    IN  IF metadata = NoJson
        THEN [kind |-> "unreadable", missing |-> <<>>]
        ELSE IF _checkFiles(L, F, library, metadata.preloadedJs) # <<>>
        THEN [kind |-> "missing",
              missing |-> _checkFiles(L, F, library, metadata.preloadedJs)]
        ELSE IF _checkFiles(L, F, library, metadata.preloadedCss) # <<>>
        THEN [kind |-> "missing",
              missing |-> _checkFiles(L, F, library, metadata.preloadedCss)]
        ELSE [kind |-> "ok", missing |-> <<>>]

\* _checkConsistency: the error it throws, or kind "ok" when it returns true.
_checkConsistency(L, J, F, library) ==
    IF getId(L, library) = 0
    THEN [kind |-> "notInstalled", missing |-> <<>>]
    ELSE LET metadata == storageLibraryJson(L, J, library)
         IN  IF metadata = NoJson
             THEN [kind |-> "unreadable", missing |-> <<>>]
             ELSE IF _checkFiles(L, F, library, metadata.preloadedJs) # <<>>
             THEN [kind |-> "missing",
                   missing |-> _checkFiles(L, F, library, metadata.preloadedJs)]
             ELSE IF _checkFiles(L, F, library, metadata.preloadedCss) # <<>>
             THEN [kind |-> "missing",
                   missing |-> _checkFiles(L, F, library, metadata.preloadedCss)]
             ELSE [kind |-> "ok", missing |-> <<>>]

\* Faulty variant of installFromDirectory: a patch of an installed line is
\* installed as a new library instead of updating the installed one.
installFromDirectoryNoUpdate(hasId, patched) ==
    IF hasId
    THEN IF patched THEN "install" ELSE "skip"
    ELSE "install"

\* Faulty variant of installFromDirectory: a library that is not installed
\* is left alone.
installFromDirectoryNoInstall(hasId, patched) ==
    IF hasId
    THEN IF patched THEN "update" ELSE "skip"
    ELSE "skip"

\* Faulty variant of installFromDirectory: an installed library is always updated.
installFromDirectoryNoSkip(hasId, patched) ==
    IF hasId THEN "update" ELSE "install"

\* installFromDirectory: the branch taken, from getId and isPatchedLibrary.
installFromDirectory(hasId, patched) ==
    IF hasId
    THEN IF patched THEN "update" ELSE "skip"
    ELSE "install"

\* Faulty variant of _updateLibrary: the catch block rethrows without removeLibrary.
_updateLibraryNoRollback(step, ok) ==
    IF ~ok THEN "raise"
    ELSE CASE step = "updateLibrary" -> "clear"
           [] step = "clearLibraryFiles" -> "copy"
           [] step = "copy" -> "check"
           [] step = "checkConsistency" -> "return"
           [] OTHER -> "raise"

\* Faulty variant of _updateLibrary: storage.updateLibrary is called before the
\* try block, its failure is raised without removeLibrary.
_updateLibraryFirstOutside(step, ok) ==
    IF step = "removeLibrary" THEN "raise"
    ELSE IF step = "updateLibrary" THEN (IF ok THEN "clear" ELSE "raise")
    ELSE IF ~ok THEN "rollback"
    ELSE CASE step = "clearLibraryFiles" -> "copy"
           [] step = "copy" -> "check"
           [] step = "checkConsistency" -> "return"

\* Faulty variant of _updateLibrary: the consistency check is run before the
\* files are copied.
_updateLibraryCheckFirst(step, ok) ==
    IF step = "removeLibrary" THEN "raise"
    ELSE IF ~ok THEN "rollback"
    ELSE CASE step = "updateLibrary" -> "clear"
           [] step = "clearLibraryFiles" -> "check"
           [] step = "checkConsistency" -> "copy"
           [] step = "copy" -> "return"

\* Faulty variant of _updateLibrary: the files are copied without
\* storage.clearLibraryFiles being called first.
_updateLibraryNoClear(step, ok) ==
    IF step = "removeLibrary" THEN "raise"
    ELSE IF ~ok THEN "rollback"
    ELSE CASE step = "updateLibrary" -> "copy"
           [] step = "clearLibraryFiles" -> "copy"
           [] step = "copy" -> "check"
           [] step = "checkConsistency" -> "return"

\* Faulty variant of _updateLibrary: a removeLibrary that raised is tried
\* again.
_updateLibraryRetryRemove(step, ok) ==
    IF step = "removeLibrary" THEN (IF ok THEN "raise" ELSE "rollback")
    ELSE IF ~ok THEN "rollback"
    ELSE CASE step = "updateLibrary" -> "clear"
           [] step = "clearLibraryFiles" -> "copy"
           [] step = "copy" -> "check"
           [] step = "checkConsistency" -> "return"

\* _updateLibrary: where control goes after a step of the update path
\* succeeded (ok) or raised: every step is inside the try block.
_updateLibrary(step, ok) ==
    IF step = "removeLibrary" THEN "raise"
    ELSE IF ~ok THEN "rollback"
    ELSE CASE step = "updateLibrary" -> "clear"
           [] step = "clearLibraryFiles" -> "copy"
           [] step = "copy" -> "check"
           [] step = "checkConsistency" -> "return"

\* Faulty variant of _installLibrary: the catch block rethrows without removeLibrary.
_installLibraryNoRollback(step, ok) ==
    IF ~ok THEN "raise"
    ELSE CASE step = "installLibrary" -> "copy"
           [] step = "copy" -> "check"
           [] step = "checkConsistency" -> "return"
           [] OTHER -> "raise"

\* Faulty variant of _installLibrary: true is returned after the copy, without
\* the consistency check.
_installLibraryNoCheck(step, ok) ==
    IF step = "removeLibrary" THEN "raise"
    ELSE IF step = "installLibrary" THEN (IF ok THEN "copy" ELSE "raise")
    ELSE IF ~ok THEN "rollback"
    ELSE "return"

\* Faulty variant of _installLibrary: after the copy nothing is awaited and
\* nothing returned.
_installLibraryNeverSettles(step, ok) ==
    IF step = "removeLibrary" THEN "raise"
    ELSE IF step = "installLibrary" THEN (IF ok THEN "copy" ELSE "raise")
    ELSE IF ~ok THEN "rollback"
    ELSE CASE step = "copy" -> "copy"
           [] step = "checkConsistency" -> "return"

\* _installLibrary: where control goes after a step of the fresh-install
\* path; storage.installLibrary is called before the try block.
_installLibrary(step, ok) ==
    IF step = "removeLibrary" THEN "raise"
    ELSE IF step = "installLibrary" THEN (IF ok THEN "copy" ELSE "raise")
    ELSE IF ~ok THEN "rollback"
    ELSE CASE step = "copy" -> "check"
           [] step = "checkConsistency" -> "return"

Flow(branch, step, ok) ==
    IF branch = "update" THEN _updateLibrary(step, ok)
    ELSE _installLibrary(step, ok)


\* ------------------------------------------------------- installFromDirectory
\* Machine names of the staged libraries.
StagedNames == {"H5P.A"}

\* What a staging directory holds besides the version: the preloaded paths
\* of its library.json and its files -- a library without assets, a complete
\* one (with a file glob does not match), one whose stylesheet is missing
\* one whose script is missing and one whose script and stylesheet both are.
StagedContents ==
    {[js |-> <<>>, css |-> <<>>, files |-> {"library.json"}],
     [js |-> <<"a.js">>, css |-> <<"a.css">>,
      files |-> {"library.json", "LICENSE", "a.js", "a.css"}],
     [js |-> <<"a.js">>, css |-> <<"a.css">>, files |-> {"library.json", "a.js"}],
     [js |-> <<"a.js">>, css |-> <<"a.css">>, files |-> {"library.json", "a.css"}],
     [js |-> <<"a.js">>, css |-> <<"a.css">>, files |-> {"library.json"}]}

\* The staging directories a caller may pass.
Stagings ==
    {[meta |-> [machineName |-> n, majorVersion |-> ma, minorVersion |-> mi,
                patchVersion |-> p, preloadedJs |-> k.js, preloadedCss |-> k.css,
                runnable |-> 1, title |-> "Staged"],
      files |-> k.files] :
        n \in StagedNames, ma \in Majors, mi \in Minors, p \in Patches,
        k \in StagedContents}

NoStaging ==
    [meta |-> NoJson, files |-> {}]

Entry(op, file) ==
    [op |-> op, file |-> file]

\* Patch versions installed for the line of a library, read from storage.
InstalledPatches(L, J, library) ==
    {J[r.id].patchVersion : r \in {x \in L : SameLine(x, library)}}

\* The pc a flow target stands for.
PcOf(target) ==
    IF target \in {"return", "raise"} THEN "done" ELSE target

ResultOf(target, old) ==
    IF target = "return" THEN "true"
    ELSE IF target = "raise" THEN "raised"
    ELSE old

\* The call of caller c moves to a flow target; a raising step records its
\* error and, when it is the first, itself as the fault.
Move(c, target, step, ok, e) ==
    /\ pc' = [pc EXCEPT ![c] = PcOf(target)]
    /\ result' = [result EXCEPT ![c] = ResultOf(target, @)]
    /\ err' = [err EXCEPT ![c] = IF ok THEN @ ELSE e]
    /\ fault' = [fault EXCEPT ![c] = IF ~ok /\ @ = "none" THEN step ELSE @]

\* After the copy was issued: with nothing to copy Promise.all resolves at once.
AfterIssue(c, todo) ==
    IF todo = {} THEN Flow(path[c], "copy", TRUE) ELSE "copy"

InitStorage ==
    /\ libs = {}
    /\ json = [i \in Ids |-> NoJson]
    /\ files = [i \in Ids |-> {}]

InitCalls(active) ==
    /\ pc = [c \in Callers |-> IF c \in active THEN "idle" ELSE "off"]
    /\ staging = [c \in Callers |-> NoStaging]
    /\ lib = [c \in Callers |-> NoLibrary]
    /\ path = [c \in Callers |-> "none"]
    /\ pend = [c \in Callers |-> {}]
    /\ result = [c \in Callers |-> "none"]
    /\ err = [c \in Callers |-> NoErr]
    /\ fault = [c \in Callers |-> "none"]
    /\ log = [c \in Callers |-> <<>>]
    /\ prePatches = [c \in Callers |-> {}]
    /\ again = [c \in Callers |-> FALSE]
    /\ preId = [c \in Callers |-> 0]
    /\ preFiles = [c \in Callers |-> {}]
    /\ value = [c \in Callers |-> NoValue]
    /\ removeFailed = FALSE
    /\ kv = [name \in UserSettings |-> "undefined"]
    /\ config = [c \in Callers |-> NoConfig]

\* One caller, calls one after the other, on an empty storage.
Init ==
    /\ InitStorage
    /\ InitCalls({1})

\* installFromDirectory up to its branch: read the staged library.json,
\* getId, isPatchedLibrary; the skip branch returns false at once.
Start(c, d) ==
    /\ pc[c] = "idle"
    /\ LET library == createFromMetadata(d.meta)
           hasId == getId(libs, library) # 0
           raises == hasId /\ getInstalledRaises(libs, json, {library.machineName})
           branch == IF raises THEN "none"
                     ELSE installFromDirectory(hasId,
                              hasId /\ isPatchedLibrary(libs, json, library))
       IN  /\ staging' = [staging EXCEPT ![c] = d]
           /\ lib' = [lib EXCEPT ![c] = library]
           /\ path' = [path EXCEPT ![c] = branch]
           /\ prePatches' = [prePatches EXCEPT ![c] = InstalledPatches(libs, json, library)]
           /\ again' = [again EXCEPT ![c] = staging[c] = d]
           /\ preId' = [preId EXCEPT ![c] = getId(libs, library)]
           /\ preFiles' = [preFiles EXCEPT ![c] =
                              IF hasId THEN files[getId(libs, library)] ELSE {}]
           /\ log' = [log EXCEPT ![c] = <<>>]
           /\ pc' = [pc EXCEPT ![c] =
                        CASE branch = "update" -> "update"
                          [] branch = "install" -> "install"
                          [] OTHER -> "done"]
           /\ result' = [result EXCEPT ![c] =
                            CASE branch = "skip" -> "false"
                              [] branch = "none" -> "raised"
                              [] OTHER -> "none"]
           /\ err' = [err EXCEPT ![c] =
                         IF raises THEN [kind |-> "type", missing |-> <<>>] ELSE NoErr]
           /\ fault' = [fault EXCEPT ![c] = "none"]
    /\ UNCHANGED <<libs, json, files, pend, value, removeFailed, kv, config>>

\* storage.installLibrary succeeds: a record with a new id and the metadata.
InstallLibrary(c) ==
    /\ pc[c] = "install"
    /\ FreeIds(libs) # {}
    /\ LET todo == _copyLibraryFiles(staging[c].files)
           target == Flow(path[c], "installLibrary", TRUE)
           id == MinOf(FreeIds(libs))
       IN  /\ libs' = storageInstallLibrary(libs, id, staging[c].meta)
           /\ json' = [json EXCEPT ![id] = staging[c].meta]
           /\ files' = [files EXCEPT ![id] = {}]
           /\ lib' = [lib EXCEPT ![c].id = id]
           /\ log' = [log EXCEPT ![c] = Append(@, Entry("installLibrary", ""))]
           /\ pend' = [pend EXCEPT ![c] = IF target = "copy" THEN todo ELSE {}]
           /\ Move(c, IF target = "copy" THEN AfterIssue(c, todo) ELSE target,
                   "installLibrary", TRUE, NoErr)
    /\ UNCHANGED <<staging, path, prePatches, again, preId, preFiles, value, removeFailed, kv, config>>

\* storage.installLibrary raises: nothing was installed.
InstallLibraryFails(c) ==
    /\ pc[c] = "install"
    /\ log' = [log EXCEPT ![c] = Append(@, Entry("installLibrary", ""))]
    /\ Move(c, Flow(path[c], "installLibrary", FALSE), "installLibrary", FALSE,
            [kind |-> "storage", missing |-> <<>>])
    /\ UNCHANGED <<libs, json, files, staging, lib, path, pend,
                   prePatches, again, preId, preFiles, value, removeFailed, kv, config>>


StorageError ==
    [kind |-> "storage", missing |-> <<>>]

\* storage.updateLibrary succeeds: the record's library.json is overwritten.
UpdateLibrary(c) ==
    /\ pc[c] = "update"
    /\ Resolve(libs, lib[c]) # 0
    /\ LET todo == _copyLibraryFiles(staging[c].files)
           target == Flow(path[c], "updateLibrary", TRUE)
       IN  /\ json' = [json EXCEPT ![Resolve(libs, lib[c])] = staging[c].meta]
           /\ log' = [log EXCEPT ![c] = Append(@, Entry("updateLibrary", ""))]
           /\ pend' = [pend EXCEPT ![c] = IF target = "copy" THEN todo ELSE {}]
           /\ Move(c, IF target = "copy" THEN AfterIssue(c, todo) ELSE target,
                   "updateLibrary", TRUE, NoErr)
    /\ UNCHANGED <<libs, files, staging, lib, path, prePatches,
                   again, preId, preFiles, value, removeFailed, kv, config>>

\* storage.updateLibrary raises.
UpdateLibraryFails(c) ==
    /\ pc[c] = "update"
    /\ log' = [log EXCEPT ![c] = Append(@, Entry("updateLibrary", ""))]
    /\ Move(c, Flow(path[c], "updateLibrary", FALSE), "updateLibrary", FALSE,
            StorageError)
    /\ UNCHANGED <<libs, json, files, staging, lib, path, pend,
                   prePatches, again, preId, preFiles, value, removeFailed, kv, config>>

\* storage.clearLibraryFiles succeeds; _copyLibraryFiles then issues one
\* addLibraryFile per file to copy.
ClearLibraryFiles(c) ==
    /\ pc[c] = "clear"
    /\ Resolve(libs, lib[c]) # 0
    /\ LET todo == _copyLibraryFiles(staging[c].files)
           target == Flow(path[c], "clearLibraryFiles", TRUE)
       IN  /\ files' = [files EXCEPT ![Resolve(libs, lib[c])] = {}]
           /\ log' = [log EXCEPT ![c] = Append(@, Entry("clearLibraryFiles", ""))]
           /\ pend' = [pend EXCEPT ![c] = IF target = "copy" THEN todo ELSE {}]
           /\ Move(c, IF target = "copy" THEN AfterIssue(c, todo) ELSE target,
                   "clearLibraryFiles", TRUE, NoErr)
    /\ UNCHANGED <<libs, json, staging, lib, path, prePatches, again, preId, preFiles, value,
                   removeFailed, kv, config>>

\* storage.clearLibraryFiles raises.
ClearLibraryFilesFails(c) ==
    /\ pc[c] = "clear"
    /\ log' = [log EXCEPT ![c] = Append(@, Entry("clearLibraryFiles", ""))]
    /\ Move(c, Flow(path[c], "clearLibraryFiles", FALSE), "clearLibraryFiles",
            FALSE, StorageError)
    /\ UNCHANGED <<libs, json, files, staging, lib, path, pend,
                   prePatches, again, preId, preFiles, value, removeFailed, kv, config>>

\* One storage.addLibraryFile settles with success; Promise.all resolves
\* with the last one.
AddLibraryFile(c, f) ==
    /\ pc[c] = "copy"
    /\ f \in pend[c]
    /\ Resolve(libs, lib[c]) # 0
    /\ files' = [files EXCEPT ![Resolve(libs, lib[c])] = @ \cup {f}]
    /\ pend' = [pend EXCEPT ![c] = @ \ {f}]
    /\ log' = [log EXCEPT ![c] = Append(@, Entry("addLibraryFile", f))]
    /\ Move(c, AfterIssue(c, pend[c] \ {f}), "copy", TRUE, NoErr)
    /\ UNCHANGED <<libs, json, staging, lib, path, prePatches, again, preId, preFiles, value,
                   removeFailed, kv, config>>

\* One storage.addLibraryFile raises: Promise.all rejects at once, the
\* other copies stay in flight.
AddLibraryFileFails(c, f) ==
    /\ pc[c] = "copy"
    /\ f \in pend[c]
    /\ pend' = [pend EXCEPT ![c] = @ \ {f}]
    /\ log' = [log EXCEPT ![c] = Append(@, Entry("addLibraryFile", f))]
    /\ Move(c, Flow(path[c], "copy", FALSE), "addLibraryFile", FALSE, StorageError)
    /\ UNCHANGED <<libs, json, files, staging, lib, path, prePatches,
                   again, preId, preFiles, value, removeFailed, kv, config>>

\* The place the storage keeps the files of the call's library: that of
\* its record, also after the record was removed.
FilesOf(c) ==
    IF Resolve(libs, lib[c]) # 0 THEN Resolve(libs, lib[c])
    ELSE IF lib[c].id # 0 THEN lib[c].id
    ELSE preId[c]

\* A copy still in flight after Promise.all rejected settles, nobody
\* awaiting it: it raises unheard or it stores its file, and the manager
\* does not order it against removeLibrary, so the write may come after
\* the removal.
LateAddLibraryFile(c, f, ok) ==
    /\ pc[c] \in {"rollback", "done"}
    /\ f \in pend[c]
    /\ pend' = [pend EXCEPT ![c] = @ \ {f}]
    /\ files' = IF ok /\ FilesOf(c) # 0
                THEN [files EXCEPT ![FilesOf(c)] = @ \cup {f}]
                ELSE files
    /\ UNCHANGED <<libs, json, pc, staging, lib, path, result, err,
                   fault, log, prePatches, again, preId, preFiles, value, removeFailed, kv, config>>

\* _checkConsistency runs: it returns true or throws its error.
CheckConsistency(c) ==
    /\ pc[c] = "check"
    /\ LET e == _checkConsistency(libs, json, files, lib[c])
           ok == e.kind = "ok"
       IN  /\ log' = [log EXCEPT ![c] = Append(@, Entry("checkConsistency", ""))]
           /\ Move(c, Flow(path[c], "checkConsistency", ok), "checkConsistency",
                   ok, e)
    /\ UNCHANGED <<libs, json, files, staging, lib, path, pend,
                   prePatches, again, preId, preFiles, value, removeFailed, kv, config>>

\* A storage read of _checkConsistency raises (getId, fileExists), or the
\* stream of library.json does.
CheckConsistencyFails(c, kind) ==
    /\ pc[c] = "check"
    /\ log' = [log EXCEPT ![c] = Append(@, Entry("checkConsistency", ""))]
    /\ Move(c, Flow(path[c], "checkConsistency", FALSE), "checkConsistency",
            FALSE, [kind |-> kind, missing |-> <<>>])
    /\ UNCHANGED <<libs, json, files, staging, lib, path, pend,
                   prePatches, again, preId, preFiles, value, removeFailed, kv, config>>

\* The catch block: storage.removeLibrary succeeds, the error is rethrown.
RemoveLibrary(c) ==
    /\ pc[c] = "rollback"
    /\ LET t == Resolve(libs, lib[c])
       IN  /\ libs' = storageRemoveLibrary(libs, lib[c])
           /\ json' = IF t = 0 THEN json ELSE [json EXCEPT ![t] = NoJson]
           /\ files' = IF t = 0 THEN files ELSE [files EXCEPT ![t] = {}]
    /\ log' = [log EXCEPT ![c] = Append(@, Entry("removeLibrary", ""))]
    /\ Move(c, Flow(path[c], "removeLibrary", TRUE), "removeLibrary", TRUE, NoErr)
    /\ UNCHANGED <<staging, lib, path, pend, prePatches, again, preId, preFiles, value,
                   removeFailed, kv, config>>

\* The catch block: storage.removeLibrary raises, its error reaches the caller.
RemoveLibraryFails(c) ==
    /\ pc[c] = "rollback"
    /\ log' = [log EXCEPT ![c] = Append(@, Entry("removeLibrary", ""))]
    /\ pc' = [pc EXCEPT ![c] = PcOf(Flow(path[c], "removeLibrary", FALSE))]
    /\ result' = [result EXCEPT ![c] = ResultOf(Flow(path[c], "removeLibrary", FALSE), @)]
    /\ err' = [err EXCEPT ![c] = [kind |-> "removeFailed", missing |-> <<>>]]
    /\ removeFailed' = TRUE
    /\ UNCHANGED <<libs, json, files, staging, lib, path, pend, fault,
                   prePatches, again, preId, preFiles, value, kv, config>>

\* The caller has the outcome and every copy in flight has settled: the
\* call is over.  What the caller keeps is the staging directory of a fresh
\* install that returned true (to pass it again).
Return(c) ==
    /\ pc[c] = "done"
    /\ pend[c] = {}
    /\ pc' = [pc EXCEPT ![c] = "idle"]
    /\ staging' = [staging EXCEPT ![c] =
                       IF path[c] = "install" /\ result[c] = "true" THEN @
                       ELSE NoStaging]
    /\ lib' = [lib EXCEPT ![c] = NoLibrary]
    /\ path' = [path EXCEPT ![c] = "none"]
    /\ result' = [result EXCEPT ![c] = "none"]
    /\ err' = [err EXCEPT ![c] = NoErr]
    /\ fault' = [fault EXCEPT ![c] = "none"]
    /\ log' = [log EXCEPT ![c] = <<>>]
    /\ prePatches' = [prePatches EXCEPT ![c] = {}]
    /\ again' = [again EXCEPT ![c] = FALSE]
    /\ preId' = [preId EXCEPT ![c] = 0]
    /\ preFiles' = [preFiles EXCEPT ![c] = {}]
    /\ UNCHANGED <<libs, json, files, pend, value, removeFailed, kv, config>>

Next ==
    \E c \in Callers :
        \/ \E d \in Stagings : Start(c, d)
        \/ InstallLibrary(c)
        \/ InstallLibraryFails(c)
        \/ UpdateLibrary(c)
        \/ UpdateLibraryFails(c)
        \/ ClearLibraryFiles(c)
        \/ ClearLibraryFilesFails(c)
        \/ \E f \in AssetPaths : AddLibraryFile(c, f)
        \/ \E f \in AssetPaths : AddLibraryFileFails(c, f)
        \/ \E f \in AssetPaths, ok \in BOOLEAN : LateAddLibraryFile(c, f, ok)
        \/ CheckConsistency(c)
        \/ \E kind \in {"storage", "unreadable"} : CheckConsistencyFails(c, kind)
        \/ RemoveLibrary(c)
        \/ RemoveLibraryFails(c)
        \/ Return(c)

Spec ==
    Init /\ [][Next]_vars


\* ------------------------------------------------------------ properties
\* The staged directory holds every file its library.json preloads.
Complete(d) ==
    Range(d.meta.preloadedJs) \cup Range(d.meta.preloadedCss)
        \subseteq _copyLibraryFiles(d.files)

Called(c, op) ==
    \E i \in DOMAIN log[c] : log[c][i].op = op

Mutating ==
    {"installLibrary", "updateLibrary", "clearLibraryFiles", "addLibraryFile",
     "removeLibrary"}

\* A record of the storage has a readable library.json and all its
\* preloaded files.
RecordConsistent(r) ==
    /\ json[r.id] # NoJson
    /\ Range(json[r.id].preloadedJs) \cup Range(json[r.id].preloadedCss)
           \subseteq files[r.id]

\* C1 -- Rollback: when file copying or the consistency check fails in
\* installFromDirectory, on the fresh-install or on the update path, and
\* removeLibrary does not fail, the call raises and getId for the library
\* is absent afterwards.
C1_Rollback ==
    \A c \in Callers :
        (/\ pc[c] = "done"
         /\ fault[c] \in {"addLibraryFile", "checkConsistency"}
         /\ err[c].kind # "removeFailed")
        => (result[c] = "raised" /\ getId(libs, lib[c]) = 0)

\* C1 witness: an update whose consistency check found a file missing was
\* rolled back, and the library that was installed before is gone.
C1_Witness ==
    /\ pc[1] = "done"
    /\ path[1] = "update"
    /\ fault[1] = "checkConsistency"
    /\ err[1].kind = "missing"
    /\ result[1] = "raised"
    /\ prePatches[1] # {}
    /\ getId(libs, lib[1]) = 0

FallibleSteps ==
    {"installLibrary", "updateLibrary", "clearLibraryFiles", "addLibraryFile",
     "checkConsistency"}

\* C2 as stated -- a failure of any storage step of installFromDirectory,
\* storage.installLibrary included, is followed by a removeLibrary call
\* before the call raises.
C2_AsStated ==
    \A c \in Callers :
        (pc[c] = "done" /\ fault[c] \in FallibleSteps)
        => (result[c] = "raised" /\ Called(c, "removeLibrary"))

\* C2 amended -- a failure of updateLibrary, clearLibraryFiles,
\* addLibraryFile or the consistency check is followed by a removeLibrary
\* call, the last storage call before the call raises; a failure of
\* storage.installLibrary is raised without a removeLibrary call.
C2_Amended ==
    \A c \in Callers :
        /\ (pc[c] = "done" /\ fault[c] \in FallibleSteps \ {"installLibrary"})
           => /\ result[c] = "raised"
              /\ log[c] # <<>>
              /\ log[c][Len(log[c])].op = "removeLibrary"
        /\ (pc[c] = "done" /\ fault[c] = "installLibrary")
           => /\ result[c] = "raised"
              /\ ~Called(c, "removeLibrary")

\* C2 witness: a fresh install whose file copy failed ended with
\* removeLibrary as its last storage call.
C2_Witness ==
    /\ pc[1] = "done"
    /\ path[1] = "install"
    /\ fault[1] = "addLibraryFile"
    /\ result[1] = "raised"
    /\ log[1][Len(log[1])].op = "removeLibrary"

\* C3 -- Consistency: from a consistent storage, as long as no removeLibrary
\* has failed, between installFromDirectory calls (returned true, returned
\* false or raised) every record has a readable library.json and every
\* preloadedJs and preloadedCss path of it exists in storage.
C3_Consistent ==
    (~removeFailed /\ \A c \in Callers : pc[c] \in {"idle", "done", "off"})
    => \A r \in libs : RecordConsistent(r)

\* C3 witness: a call was rolled back after its consistency check failed
\* while a library with preloaded files is installed.
C3_Witness ==
    /\ ~removeFailed
    /\ pc[1] = "done"
    /\ result[1] = "raised"
    /\ fault[1] = "checkConsistency"
    /\ \E r \in libs : json[r.id].preloadedJs # <<>> /\ RecordConsistent(r)

\* C4 -- Single patch: storage never holds two records of the same
\* machineName, majorVersion and minorVersion, and an update that returned
\* true left the staged patch as the one installed patch of its line.
C4_SinglePatch ==
    /\ \A r1, r2 \in libs : SameLine(r1, r2) => r1 = r2
    /\ \A c \in Callers :
           (pc[c] = "done" /\ path[c] = "update" /\ result[c] = "true")
           => InstalledPatches(libs, json, lib[c]) = {lib[c].patchVersion}

\* C4 witness: patch 2 was installed over patch 1 and is the only record.
C4_Witness ==
    /\ pc[1] = "done"
    /\ path[1] = "update"
    /\ result[1] = "true"
    /\ prePatches[1] = {1}
    /\ lib[1].patchVersion = 2
    /\ Cardinality({r \in libs : SameLine(r, lib[1])}) = 1

\* C5 -- Patch upgrade: with patch p1 of a line installed and a staged
\* patch p2 > p1 of that line, isPatchedLibrary is true (the update branch
\* is taken), the call does not return false, it returns true when the
\* staged directory is complete and no storage step raises, and after a
\* true getInstalled lists exactly one record of the line, with patch p2.
C5_PatchUpgrade ==
    \A c \in Callers :
        (/\ pc[c] = "done"
         /\ prePatches[c] # {}
         /\ \A q \in prePatches[c] : q < staging[c].meta.patchVersion)
        => /\ path[c] = "update"
           /\ result[c] # "false"
           /\ (fault[c] = "none" /\ Complete(staging[c])) => result[c] = "true"
           /\ result[c] = "true" =>
                LET got == getInstalled(libs, json, {lib[c].machineName})
                IN  /\ lib[c].machineName \in DOMAIN got
                    /\ LET line == SelectSeq(got[lib[c].machineName],
                                             LAMBDA r : SameLine(r, lib[c]))
                       IN  /\ Len(line) = 1
                           /\ line[1].patchVersion = staging[c].meta.patchVersion

\* C5 witness: patch 2 staged over an installed patch 1, the call returned
\* true.
C5_Witness ==
    /\ pc[1] = "done"
    /\ prePatches[1] = {1}
    /\ staging[1].meta.patchVersion = 2
    /\ result[1] = "true"
    /\ InstalledPatches(libs, json, lib[1]) = {2}

\* C6 -- Idempotence: a fresh install of a complete staging directory
\* returns true when no storage step raises, and the same directory passed
\* again right after a fresh install that returned true returns false.
C6_Idempotent ==
    \A c \in Callers :
        /\ (/\ pc[c] = "done"
            /\ prePatches[c] = {}
            /\ fault[c] = "none"
            /\ Complete(staging[c]))
           => result[c] = "true"
        /\ (pc[c] = "done" /\ again[c]) => result[c] = "false"

\* C6 witness: the second call with the same directory returned false.
C6_Witness ==
    /\ pc[1] = "done"
    /\ again[1]
    /\ result[1] = "false"
    /\ log[1] = <<>>

\* C7 -- Skip: when the staged line is installed with a patch equal to or
\* above the staged one, installFromDirectory returns false without
\* raising, makes no storage call that changes anything, and leaves the
\* records and files as they were.
C7_Skip ==
    [][\A c \in Callers :
           (/\ pc[c] = "idle"
            /\ pc'[c] # "idle"
            /\ InstalledPatches(libs, json, lib'[c]) # {}
            /\ \A q \in InstalledPatches(libs, json, lib'[c]) :
                   q >= lib'[c].patchVersion)
           => /\ pc'[c] = "done"
              /\ result'[c] = "false"
              /\ \A i \in DOMAIN log'[c] : log'[c][i].op \notin Mutating
              /\ UNCHANGED <<libs, json, files>>]_vars

\* C7 witness: a call on an installed, not older line returned false with
\* no storage call made.
C7_Witness ==
    /\ pc[1] = "done"
    /\ result[1] = "false"
    /\ prePatches[1] # {}
    /\ \A q \in prePatches[1] : q > lib[1].patchVersion
    /\ log[1] = <<>>

\* C12 -- Round trip: after installFromDirectory returned true, on the
\* fresh-install or on the update path, loadLibrary for the staged identity
\* returns metadata (not undefined) whose libraryId is the id getId now
\* returns for the identity and whose major, minor and patch version are
\* those of the staged library.json.
C12_RoundTrip ==
    \A c \in Callers :
        (pc[c] = "done" /\ result[c] = "true")
        => LET library == createFromMetadata(staging[c].meta)
               metadata == loadLibrary(libs, json, library)
           IN  /\ metadata # Undefined
               /\ getId(libs, library) # 0
               /\ metadata.libraryId = getId(libs, library)
               /\ metadata.machineName = staging[c].meta.machineName
               /\ metadata.majorVersion = staging[c].meta.majorVersion
               /\ metadata.minorVersion = staging[c].meta.minorVersion
               /\ metadata.patchVersion = staging[c].meta.patchVersion

\* C12 witness: patch 2 was installed over patch 1 with true returned, and
\* loadLibrary gives patch 2 under the id of the line.
C12_Witness ==
    /\ pc[1] = "done"
    /\ result[1] = "true"
    /\ path[1] = "update"
    /\ prePatches[1] = {1}
    /\ loadLibrary(libs, json, createFromMetadata(staging[1].meta)).patchVersion = 2
    /\ loadLibrary(libs, json, createFromMetadata(staging[1].meta)).libraryId
           = preId[1]

\* C13 -- A failed update removes the library instead of restoring it: when
\* updateLibrary, clearLibraryFiles, a file copy or the consistency check
\* raises on the update path, removeLibrary is called and the call raises;
\* once removeLibrary has done its work no patch of the line is installed
\* any more, also when the failing step was the first one.
C13_FailedUpdateRemoves ==
    \A c \in Callers :
        (pc[c] = "done" /\ path[c] = "update" /\ fault[c] \in FallibleSteps)
        => /\ result[c] = "raised"
           /\ prePatches[c] # {}
           /\ Called(c, "removeLibrary")
           /\ err[c].kind # "removeFailed"
                  => /\ getId(libs, lib[c]) = 0
                     /\ InstalledPatches(libs, json, lib[c]) = {}

\* C13 witness: storage.updateLibrary, the first step, raised with patch 1
\* installed; the call raised that error and the line is not installed.
C13_Witness ==
    /\ pc[1] = "done"
    /\ path[1] = "update"
    /\ fault[1] = "updateLibrary"
    /\ prePatches[1] = {1}
    /\ result[1] = "raised"
    /\ err[1] = StorageError
    /\ getId(libs, lib[1]) = 0

\* Position of a storage call in the order of the update and install paths.
Rank(op) ==
    CASE op = "installLibrary" -> 1
      [] op = "updateLibrary" -> 1
      [] op = "clearLibraryFiles" -> 2
      [] op = "addLibraryFile" -> 3
      [] op = "checkConsistency" -> 4
      [] op = "removeLibrary" -> 5

\* The files whose addLibraryFile call of caller c has settled.
Copied(c) ==
    {log[c][i].file : i \in {k \in DOMAIN log[c] : log[c][k].op = "addLibraryFile"}}

\* The calls of one storage operation caller c has made.
Calls(c, op) ==
    {i \in DOMAIN log[c] : log[c][i].op = op}

\* C14 -- Update path ordering: the storage calls of an update are made in
\* the order updateLibrary, clearLibraryFiles, the addLibraryFile calls,
\* the consistency check; no addLibraryFile is issued before
\* clearLibraryFiles has returned, the consistency check starts only when
\* every file to copy has been stored, and the files stored while copying
\* and checking are exactly the copied ones (the clear removes none).
C14_UpdateOrder ==
    \A c \in Callers :
        path[c] = "update"
        => /\ \A i, j \in DOMAIN log[c] :
                  i < j => Rank(log[c][i].op) <= Rank(log[c][j].op)
           /\ \A op \in {"updateLibrary", "clearLibraryFiles", "checkConsistency"} :
                  Cardinality(Calls(c, op)) <= 1
           /\ log[c] # <<>> => log[c][1].op = "updateLibrary"
           /\ (pend[c] # {} \/ Copied(c) # {} \/ Called(c, "checkConsistency"))
                  => /\ Called(c, "clearLibraryFiles")
                     /\ fault[c] \notin {"updateLibrary", "clearLibraryFiles"}
           /\ (pc[c] = "check" \/ Called(c, "checkConsistency"))
                  => /\ pend[c] = {}
                     /\ fault[c] # "addLibraryFile"
                     /\ Copied(c) = _copyLibraryFiles(staging[c].files)
                     /\ Cardinality(Calls(c, "addLibraryFile"))
                            = Cardinality(_copyLibraryFiles(staging[c].files))
           /\ pc[c] \in {"copy", "check"}
                  => files[getId(libs, lib[c])] = Copied(c)

\* C14 witness: an update that copied two files returned true after five
\* storage calls, the last one the consistency check.
C14_Witness ==
    /\ pc[1] = "done"
    /\ path[1] = "update"
    /\ result[1] = "true"
    /\ Len(log[1]) = 5
    /\ log[1][2].op = "clearLibraryFiles"
    /\ Copied(1) = {"a.js", "a.css"}
    /\ log[1][5].op = "checkConsistency"

\* C15 -- Fresh-install ordering: storage.installLibrary has returned before
\* any addLibraryFile is issued; the record it returned is the one the
\* files are copied to, the one checked and the one removed on rollback;
\* the consistency check starts only when every addLibraryFile has
\* succeeded; true is returned only after the consistency check passed.
C15_InstallOrder ==
    \A c \in Callers :
        path[c] = "install"
        => /\ \A i, j \in DOMAIN log[c] :
                  i < j => Rank(log[c][i].op) <= Rank(log[c][j].op)
           /\ \A op \in {"installLibrary", "checkConsistency", "removeLibrary"} :
                  Cardinality(Calls(c, op)) <= 1
           /\ ~Called(c, "updateLibrary") /\ ~Called(c, "clearLibraryFiles")
           /\ log[c] # <<>> => log[c][1].op = "installLibrary"
           /\ (pend[c] # {} \/ Len(log[c]) > 1 \/ result[c] = "true")
                  => /\ Called(c, "installLibrary")
                     /\ fault[c] # "installLibrary"
                     /\ lib[c].id # 0
           /\ pc[c] \in {"copy", "check", "rollback"}
                  => lib[c].id = getId(libs, createFromMetadata(staging[c].meta))
           /\ pc[c] \in {"copy", "check"} => files[lib[c].id] = Copied(c)
           /\ (Called(c, "removeLibrary") /\ err[c].kind # "removeFailed")
                  => \A r \in libs : r.id # lib[c].id
           /\ (pc[c] = "check" \/ Called(c, "checkConsistency"))
                  => /\ pend[c] = {}
                     /\ fault[c] # "addLibraryFile"
                     /\ Copied(c) = _copyLibraryFiles(staging[c].files)
           /\ result[c] = "true"
                  => /\ fault[c] = "none"
                     /\ log[c][Len(log[c])].op = "checkConsistency"
                     /\ _checkConsistency(libs, json, files, lib[c]).kind = "ok"

\* C15 witness: a fresh install of two files returned true after
\* installLibrary, two copies to the new record and the check.
C15_Witness ==
    /\ pc[1] = "done"
    /\ path[1] = "install"
    /\ result[1] = "true"
    /\ Len(log[1]) = 4
    /\ log[1][1].op = "installLibrary"
    /\ files[lib[1].id] = {"a.js", "a.css"}
    /\ log[1][4].op = "checkConsistency"

\* C16 as stated -- _copyLibraryFiles hands every file of the staging
\* directory, with or without an extension, to storage.addLibraryFile
\* exactly once under its relative path, except library.json, which is
\* never handed over: when the copy of a call is complete, the files
\* handed over are all staged files but library.json.
C16_AsStated ==
    \A c \in Callers :
        (pc[c] = "check" \/ (pc[c] = "done" /\ result[c] = "true"))
        => /\ Copied(c) = staging[c].files \ {"library.json"}
           /\ Cardinality(Calls(c, "addLibraryFile")) = Cardinality(Copied(c))

\* C17 as stated -- No leftovers after a failed install with concurrent
\* copies: once installFromDirectory has raised after a removeLibrary that
\* returned, and every addLibraryFile still in flight has settled, the
\* storage holds no file of the library.
C17_AsStated ==
    \A c \in Callers :
        (/\ pc[c] = "done"
         /\ result[c] = "raised"
         /\ fault[c] = "addLibraryFile"
         /\ Called(c, "removeLibrary")
         /\ err[c].kind # "removeFailed"
         /\ pend[c] = {})
        => /\ getId(libs, lib[c]) = 0
           /\ files[FilesOf(c)] = {}

\* C18 -- A successful update keeps the id and replaces the files: after
\* installFromDirectory returned true on the update path, getId gives the
\* id it gave before the call, and the files stored for the library are
\* exactly the files copied from the staging directory; no file of the
\* previous patch that was not copied remains.
C18_UpdateKeepsId ==
    \A c \in Callers :
        (pc[c] = "done" /\ path[c] = "update" /\ result[c] = "true")
        => /\ preId[c] # 0
           /\ getId(libs, lib[c]) = preId[c]
           /\ files[preId[c]] = Copied(c)
           /\ Copied(c) = _copyLibraryFiles(staging[c].files)
           /\ \A f \in preFiles[c] : f \notin Copied(c) => f \notin files[preId[c]]

\* C18 witness: the installed patch had two files, the staged patch has
\* none besides library.json: after the update the library has no file and
\* its id is the one it had.
C18_Witness ==
    /\ pc[1] = "done"
    /\ path[1] = "update"
    /\ result[1] = "true"
    /\ preFiles[1] = {"a.js", "a.css"}
    /\ files[preId[1]] = {}
    /\ getId(libs, lib[1]) = preId[1]

\* The installed records of the library's machine name in another major or
\* minor version.
OtherLines(L, library) ==
    {r \in L : r.machineName = library.machineName /\ ~SameLine(r, library)}

\* C19 -- A different major or minor version is a new library: when the
\* staged machine name is installed only in other (major, minor) lines,
\* installFromDirectory takes the fresh-install path (installLibrary is
\* called, updateLibrary and clearLibraryFiles are not), it does not
\* return false and returns true when the staged directory is complete and
\* no storage step raises, no step of the call changes a record or a file
\* of the installed lines, and after a true both versions are installed.
C19_NewLine ==
    [][\A c \in Callers :
           /\ (/\ pc[c] = "idle"
               /\ pc'[c] # "idle"
               /\ InstalledPatches(libs, json, lib'[c]) = {}
               /\ OtherLines(libs, lib'[c]) # {})
              => /\ path'[c] = "install"
                 /\ pc'[c] = "install"
                 /\ UNCHANGED <<libs, json, files>>
           /\ (/\ pc[c] \notin {"idle", "off"}
               /\ path[c] = "install"
               /\ OtherLines(libs, lib[c]) # {})
              => /\ \A r \in OtherLines(libs, lib[c]) :
                        /\ r \in libs'
                        /\ json'[r.id] = json[r.id]
                        /\ files'[r.id] = files[r.id]
                 /\ \A i \in DOMAIN log'[c] :
                        log'[c][i].op \notin {"updateLibrary", "clearLibraryFiles"}
                 /\ (log[c] = <<>> /\ log'[c] # <<>>)
                        => log'[c][1].op = "installLibrary"
                 /\ result'[c] # "false"
                 /\ (pc'[c] = "done" /\ fault'[c] = "none" /\ Complete(staging[c]))
                        => result'[c] = "true"
                 /\ result'[c] = "true"
                        => /\ getId(libs', lib[c]) # 0
                           /\ OtherLines(libs', lib[c]) = OtherLines(libs, lib[c])]_vars

\* C19 witness: version 1.1 was installed next to the installed 1.0 of the
\* same machine name with true returned; both records are there.
C19_Witness ==
    /\ pc[1] = "done"
    /\ path[1] = "install"
    /\ result[1] = "true"
    /\ log[1][1].op = "installLibrary"
    /\ getId(libs, lib[1]) # 0
    /\ \E r \in OtherLines(libs, lib[1]) :
           /\ json[r.id].patchVersion \in Patches
           /\ r.id # lib[1].id


\* ------------------------------------------------- queries on any storage
\* The versions of the records and candidates of the query specification.
QueryVersions ==
    {<<1, 0>>, <<1, 1>>, <<2, 0>>}

QueryLibraries ==
    {[machineName |-> n, majorVersion |-> v[1], minorVersion |-> v[2],
      patchVersion |-> p, id |-> 0] :
        n \in MachineNames, v \in QueryVersions, p \in Patches}

MetadataOf(library, js, css) ==
    [machineName |-> library.machineName, majorVersion |-> library.majorVersion,
     minorVersion |-> library.minorVersion, patchVersion |-> library.patchVersion,
     preloadedJs |-> js, preloadedCss |-> css, runnable |-> 1,
     title |-> "Stored"]

RecordOf(library, id) ==
    [machineName |-> library.machineName, majorVersion |-> library.majorVersion,
     minorVersion |-> library.minorVersion, id |-> id]

\* Any storage content of up to MaxRecs records, several records of one
\* line included, each with its own library.json.
InitQuery ==
    /\ \E n \in 0..MaxRecs :
           \E content \in [1..n -> QueryLibraries] :
               /\ libs = {RecordOf(content[i], i) : i \in 1..n}
               /\ json = [i \in 1..MaxRecs |->
                             IF i <= n THEN MetadataOf(content[i], <<>>, <<>>)
                             ELSE NoJson]
    /\ files = [i \in 1..MaxRecs |-> {}]
    /\ InitCalls({1})

\* The caller's query returned.
Answer(c, query, candidate, answer) ==
    /\ pc[c] = "idle"
    /\ pc' = [pc EXCEPT ![c] = "done"]
    /\ lib' = [lib EXCEPT ![c] = candidate]
    /\ path' = [path EXCEPT ![c] = query]
    /\ result' = [result EXCEPT ![c] = IF answer THEN "true" ELSE "false"]
    /\ UNCHANGED <<libs, json, files, staging, pend, err, fault, log,
                   prePatches, again, preId, preFiles, value, removeFailed, kv, config>>

\* The caller's query raised the error of its getInstalled call.
Throw(c, query, candidate) ==
    /\ pc[c] = "idle"
    /\ pc' = [pc EXCEPT ![c] = "done"]
    /\ lib' = [lib EXCEPT ![c] = candidate]
    /\ path' = [path EXCEPT ![c] = query]
    /\ result' = [result EXCEPT ![c] = "raised"]
    /\ err' = [err EXCEPT ![c] = TypeError]
    /\ UNCHANGED <<libs, json, files, staging, pend, fault, log,
                   prePatches, again, preId, preFiles, value, removeFailed, kv, config>>

QueryIsPatchedLibrary(c, candidate) ==
    /\ pc[c] = "idle"
    /\ IF getInstalledRaises(libs, json, {candidate.machineName})
       THEN Throw(c, "isPatchedLibrary", candidate)
       ELSE Answer(c, "isPatchedLibrary", candidate,
                   isPatchedLibrary(libs, json, candidate))

QueryLibraryHasUpgrade(c, candidate) ==
    /\ pc[c] = "idle"
    /\ IF getInstalledRaises(libs, json, {candidate.machineName})
       THEN Throw(c, "libraryHasUpgrade", candidate)
       ELSE Answer(c, "libraryHasUpgrade", candidate,
                   libraryHasUpgrade(libs, json, candidate))

NextQuery ==
    \E c \in Callers, candidate \in QueryLibraries :
        \/ QueryIsPatchedLibrary(c, candidate)
        \/ QueryLibraryHasUpgrade(c, candidate)

SpecQuery ==
    InitQuery /\ [][NextQuery]_vars

\* The version of a is below the version of b: major, then minor, then patch.
VersionBelow(a, b) ==
    \/ a.majorVersion < b.majorVersion
    \/ a.majorVersion = b.majorVersion /\ a.minorVersion < b.minorVersion
    \/ /\ a.majorVersion = b.majorVersion
       /\ a.minorVersion = b.minorVersion
       /\ a.patchVersion < b.patchVersion

\* The installed version of a record: its line with the patch of its
\* library.json.
Installed(r) ==
    [machineName |-> r.machineName, majorVersion |-> r.majorVersion,
     minorVersion |-> r.minorVersion, patchVersion |-> json[r.id].patchVersion]

\* C8 -- for any storage content, several records of one line included,
\* isPatchedLibrary(candidate) is true if and only if some installed record
\* has the candidate's machineName, majorVersion and minorVersion and a
\* strictly smaller patchVersion.
C8_IsPatched ==
    \A c \in Callers :
        (pc[c] = "done" /\ path[c] = "isPatchedLibrary")
        => (result[c] = "true"
            <=> \E r \in libs :
                    /\ SameLine(r, lib[c])
                    /\ json[r.id].patchVersion < lib[c].patchVersion)

\* C8 witness: two records of the candidate's line, the one the storage
\* lists first with the higher patch, the other below the candidate:
\* isPatchedLibrary answered true.
C8_Witness ==
    /\ pc[1] = "done"
    /\ path[1] = "isPatchedLibrary"
    /\ result[1] = "true"
    /\ \E r1, r2 \in libs :
           /\ r1.id < r2.id
           /\ SameLine(r1, lib[1])
           /\ SameLine(r2, lib[1])
           /\ json[r1.id].patchVersion >= lib[1].patchVersion
           /\ json[r2.id].patchVersion < lib[1].patchVersion

\* C9 -- libraryHasUpgrade(candidate) is false when no installed record has
\* the candidate's machineName; otherwise it is true if and only if the
\* greatest installed version of that machine name is strictly below the
\* candidate's version (every installed version of the name is).
C9_HasUpgrade ==
    \A c \in Callers :
        (pc[c] = "done" /\ path[c] = "libraryHasUpgrade")
        => LET same == {r \in libs : r.machineName = lib[c].machineName}
           IN  /\ same = {} => result[c] = "false"
               /\ same # {} =>
                    (result[c] = "true"
                     <=> \A r \in same : VersionBelow(Installed(r), lib[c]))

\* C9 witness: two versions of the candidate's machine name are installed,
\* the candidate is above one and not above the other: no upgrade.
C9_Witness ==
    /\ pc[1] = "done"
    /\ path[1] = "libraryHasUpgrade"
    /\ result[1] = "false"
    /\ \E r1, r2 \in libs :
           /\ r1.machineName = lib[1].machineName
           /\ r2.machineName = lib[1].machineName
           /\ VersionBelow(Installed(r1), lib[1])
           /\ ~VersionBelow(Installed(r2), lib[1])


\* ------------------------------------------ the consistency check alone
CheckJs == {<<>>, <<"a.js">>, <<"a.js", "b.js">>}
CheckCss == {<<>>, <<"a.css">>, <<"a.css", "b.css">>}
CheckPaths == {"a.js", "b.js", "a.css", "b.css"}

\* One installed library with any preloaded paths and any of the files.
InitCheck ==
    /\ \E p \in Patches, js \in CheckJs, css \in CheckCss, have \in SUBSET CheckPaths :
           LET library == [machineName |-> "H5P.A", majorVersion |-> 1,
                           minorVersion |-> 0, patchVersion |-> p, id |-> 0]
           IN  /\ libs = {RecordOf(library, 1)}
               /\ json = [i \in Ids |->
                             IF i = 1 THEN MetadataOf(library, js, css) ELSE NoJson]
               /\ files = [i \in Ids |-> IF i = 1 THEN have ELSE {}]
    /\ InitCalls({1})

\* _checkConsistency is run on a record of the storage.
RunCheckConsistency(c, r) ==
    /\ pc[c] = "idle"
    /\ r \in libs
    /\ LET library == [machineName |-> r.machineName,
                       majorVersion |-> r.majorVersion,
                       minorVersion |-> r.minorVersion,
                       patchVersion |-> json[r.id].patchVersion, id |-> r.id]
       IN  /\ lib' = [lib EXCEPT ![c] = library]
           /\ err' = [err EXCEPT ![c] = _checkConsistency(libs, json, files, library)]
           /\ result' = [result EXCEPT ![c] =
                            IF _checkConsistency(libs, json, files, library).kind = "ok"
                            THEN "true" ELSE "raised"]
    /\ pc' = [pc EXCEPT ![c] = "done"]
    /\ path' = [path EXCEPT ![c] = "_checkConsistency"]
    /\ UNCHANGED <<libs, json, files, staging, pend, fault, log, prePatches,
                   again, preId, preFiles, value, removeFailed, kv, config>>

NextCheck ==
    \E c \in Callers, r \in libs : RunCheckConsistency(c, r)

SpecCheck ==
    InitCheck /\ [][NextCheck]_vars

\* The preloaded paths of a sequence that are not in storage for an id.
MissingOf(paths, id) ==
    {f \in Range(paths) : f \notin files[id]}

\* C10 as stated -- when _checkConsistency fails for absent files, the
\* error lists every preloadedJs and every preloadedCss path that is
\* missing in storage.
C10_AsStated ==
    \A c \in Callers :
        (pc[c] = "done" /\ path[c] = "_checkConsistency" /\ err[c].kind = "missing")
        => Range(err[c].missing)
               = MissingOf(json[lib[c].id].preloadedJs, lib[c].id)
                   \cup MissingOf(json[lib[c].id].preloadedCss, lib[c].id)

\* C10 amended -- _checkConsistency fails for absent files if and only if
\* some preloaded path is missing; its error lists every missing
\* preloadedJs path when there is one, and only when no preloadedJs path is
\* missing it lists every missing preloadedCss path.
C10_Amended ==
    \A c \in Callers :
        (pc[c] = "done" /\ path[c] = "_checkConsistency")
        => LET js == MissingOf(json[lib[c].id].preloadedJs, lib[c].id)
               css == MissingOf(json[lib[c].id].preloadedCss, lib[c].id)
           IN  /\ err[c].kind = "missing" <=> js \cup css # {}
               /\ err[c].kind # "missing" => err[c].kind = "ok"
               /\ js # {} => Range(err[c].missing) = js
               /\ (js = {} /\ css # {}) => Range(err[c].missing) = css

\* C10 witness: two preloadedJs files and a preloadedCss file are missing;
\* the error lists the two scripts and not the stylesheet.
C10_Witness ==
    /\ pc[1] = "done"
    /\ path[1] = "_checkConsistency"
    /\ err[1].kind = "missing"
    /\ err[1].missing = <<"a.js", "b.js">>
    /\ MissingOf(json[lib[1].id].preloadedCss, lib[1].id) # {}


\* ------------------------------- the consistency check on any identity
\* The identity the check is run on.
CheckedLibrary ==
    [machineName |-> "H5P.A", majorVersion |-> 1, minorVersion |-> 0,
     patchVersion |-> 1, id |-> 0]

\* The storage of the identity: not installed; installed with a
\* library.json that cannot be read; or installed with any preloaded paths
\* and any of the files.
InitConsistency ==
    /\ \E installed, readable \in BOOLEAN, js \in CheckJs, css \in CheckCss,
          have \in SUBSET CheckPaths :
           /\ ~installed => (~readable /\ have = {})
           /\ ~readable => (js = <<>> /\ css = <<>>)
           /\ libs = IF installed THEN {RecordOf(CheckedLibrary, 1)} ELSE {}
           /\ json = [i \in Ids |->
                         IF i = 1 /\ readable
                         THEN MetadataOf(CheckedLibrary, js, css) ELSE NoJson]
           /\ files = [i \in Ids |-> IF i = 1 THEN have ELSE {}]
    /\ InitCalls({1})

\* _checkConsistency is run on an identity: it returns true or throws.
CheckIdentity(c, library) ==
    /\ pc[c] = "idle"
    /\ pc' = [pc EXCEPT ![c] = "done"]
    /\ path' = [path EXCEPT ![c] = "_checkConsistency"]
    /\ lib' = [lib EXCEPT ![c] = library]
    /\ err' = [err EXCEPT ![c] = _checkConsistency(libs, json, files, library)]
    /\ result' = [result EXCEPT ![c] =
                     IF _checkConsistency(libs, json, files, library).kind = "ok"
                     THEN "true" ELSE "raised"]
    /\ UNCHANGED <<libs, json, files, staging, pend, fault, log, prePatches,
                   again, preId, preFiles, value, removeFailed, kv, config>>

NextConsistency ==
    \E c \in Callers : CheckIdentity(c, CheckedLibrary)

SpecConsistency ==
    InitConsistency /\ [][NextConsistency]_vars

\* C20 -- _checkConsistency returns true if and only if the storage has a
\* record for the identity, its library.json can be read and parsed, and
\* every preloadedJs and preloadedCss path exists in storage; otherwise it
\* raises: 'not installed' without a record, 'library.json not readable'
\* with an unreadable library.json, '<path> is missing.' for absent files;
\* it never returns false.
C20_CheckConsistency ==
    \A c \in Callers :
        (pc[c] = "done" /\ path[c] = "_checkConsistency")
        => LET installed == \E r \in libs : SameLine(r, lib[c])
               readable == installed /\ json[1] # NoJson
               required == Range(json[1].preloadedJs) \cup Range(json[1].preloadedCss)
               present == required \subseteq files[1]
           IN  /\ result[c] \in {"true", "raised"}
               /\ result[c] = "true" <=> (installed /\ readable /\ present)
               /\ result[c] = "true" <=> err[c].kind = "ok"
               /\ ~installed => err[c].kind = "notInstalled"
               /\ (installed /\ ~readable) => err[c].kind = "unreadable"
               /\ (readable /\ ~present)
                      => /\ err[c].kind = "missing"
                         /\ err[c].missing # <<>>
                         /\ Range(err[c].missing) \subseteq required \ files[1]

\* C20 witness: the identity has no record: the check raised 'not installed'.
C20_Witness ==
    /\ pc[1] = "done"
    /\ path[1] = "_checkConsistency"
    /\ libs = {}
    /\ result[1] = "raised"
    /\ err[1].kind = "notInstalled"


\* --------------------------------------------------- reads that never raise
\* Language codes of the language files a library may hold.
Languages == {"de", "fr"}

\* path.join('language', `${language}.json`).
LanguagePath(language) ==
    IF language = "de" THEN "language/de.json" ELSE "language/fr.json"

\* storage.getLanguageFiles: the codes of the library's language files.
storageGetLanguageFiles(L, F, library) ==
    LET t == Resolve(L, library)
        has(language) == t # 0 /\ LanguagePath(language) \in F[t]
    IN  (IF has("de") THEN <<"de">> ELSE <<>>)
            \o (IF has("fr") THEN <<"fr">> ELSE <<>>)

Raised ==
    [kind |-> "raised", names |-> {}, installed |-> <<>>,
     metadata |-> Undefined, codes |-> <<>>]

\* Faulty variant of loadLibraryTry: the id lookup is made outside the try block.
loadLibraryTryIdOutside(L, J, library, idRaises) ==
    IF storageLibraryJson(L, J, library) = NoJson
    THEN [kind |-> "undefined", names |-> {}, installed |-> <<>>,
          metadata |-> Undefined, codes |-> <<>>]
    ELSE IF idRaises THEN Raised
    ELSE [kind |-> "metadata", names |-> {}, installed |-> <<>>,
          metadata |-> loadLibrary(L, J, library),
          codes |-> <<>>]

\* loadLibrary with a storage whose getId may raise: the try block holds
\* both the read of library.json and the id lookup, the catch returns
\* undefined.
loadLibraryTry(L, J, library, idRaises) ==
    IF storageLibraryJson(L, J, library) = NoJson \/ idRaises
    THEN [kind |-> "undefined", names |-> {}, installed |-> <<>>,
          metadata |-> Undefined, codes |-> <<>>]
    ELSE [kind |-> "metadata", names |-> {}, installed |-> <<>>,
          metadata |-> loadLibrary(L, J, library),
          codes |-> <<>>]

\* listLanguages: the storage's language codes, [] when the storage raises.
listLanguages(L, F, library, raises) ==
    IF raises
    THEN [kind |-> "list", names |-> {}, installed |-> <<>>,
          metadata |-> Undefined, codes |-> <<>>]
    ELSE [kind |-> "list", names |-> {}, installed |-> <<>>,
          metadata |-> Undefined,
          codes |-> storageGetLanguageFiles(L, F, library)]

\* loadLanguage: the parsed language file (its code stands for the
\* content), null when the stream cannot be opened or read or the content
\* does not parse.
loadLanguage(L, F, library, language, failure) ==
    IF failure # "none" \/ ~storageFileExists(L, F, library, LanguagePath(language))
    THEN [kind |-> "null", names |-> {}, installed |-> <<>>,
          metadata |-> Undefined, codes |-> <<>>]
    ELSE [kind |-> "json", names |-> {}, installed |-> <<>>,
          metadata |-> Undefined, codes |-> <<language>>]

\* The libraries of the read specification: two lines of one machine name
\* and one line of another.
SoftLibraries ==
    {l \in QueryLibraries : l.majorVersion = 1 /\ l.patchVersion = 1
                            /\ (l.machineName = "H5P.B" => l.minorVersion = 0)}

LanguagePaths ==
    {LanguagePath(language) : language \in Languages}

\* Any storage of up to MaxRecs lines, each record with a readable or an
\* unreadable library.json and any of the language files.
InitSoft ==
    /\ \E n \in 0..MaxRecs :
           \E content \in [1..n -> SoftLibraries], readable \in [1..n -> BOOLEAN],
              have \in [1..n -> SUBSET LanguagePaths] :
               /\ \A i, j \in 1..n : content[i] = content[j] => i = j
               /\ libs = {RecordOf(content[i], i) : i \in 1..n}
               /\ json = [i \in 1..MaxRecs |->
                             IF i <= n /\ readable[i]
                             THEN MetadataOf(content[i], <<>>, <<>>)
                             ELSE NoJson]
               /\ files = [i \in 1..MaxRecs |-> IF i <= n THEN have[i] ELSE {}]
    /\ InitCalls({1})

\* A read of caller c returned v (or raised, when v is Raised); failed
\* names the storage call that raised during it.
Reply(c, query, library, failed, v) ==
    /\ pc[c] = "idle"
    /\ pc' = [pc EXCEPT ![c] = "done"]
    /\ lib' = [lib EXCEPT ![c] = library]
    /\ path' = [path EXCEPT ![c] = query]
    /\ fault' = [fault EXCEPT ![c] = failed]
    /\ value' = [value EXCEPT ![c] = v]
    /\ result' = [result EXCEPT ![c] = IF v = Raised THEN "raised" ELSE "none"]
    /\ UNCHANGED <<libs, json, files, staging, pend, err, log, prePatches,
                   again, preId, preFiles, removeFailed, kv, config>>

LoadLibrary(c, library, idRaises) ==
    Reply(c, "loadLibrary", library,
          IF storageLibraryJson(libs, json, library) = NoJson THEN "getFileStream"
          ELSE IF idRaises THEN "getId" ELSE "none",
          loadLibraryTry(libs, json, library, idRaises))

ListLanguages(c, library, raises) ==
    Reply(c, "listLanguages", library,
          IF raises THEN "getLanguageFiles" ELSE "none",
          listLanguages(libs, files, library, raises))

LoadLanguage(c, library, language, failure) ==
    Reply(c, "loadLanguage", library,
          IF ~storageFileExists(libs, files, library, LanguagePath(language))
          THEN "getFileStream" ELSE failure,
          loadLanguage(libs, files, library, language, failure))

NextSoft ==
    \E c \in Callers, library \in SoftLibraries :
        \/ \E idRaises \in BOOLEAN : LoadLibrary(c, library, idRaises)
        \/ \E raises \in BOOLEAN : ListLanguages(c, library, raises)
        \/ \E language \in Languages, failure \in {"none", "streamToString", "parse"} :
               LoadLanguage(c, library, language, failure)

SpecSoft ==
    InitSoft /\ [][NextSoft]_vars

\* C11 -- Soft failures never raise: loadLibrary returns undefined whenever
\* library.json cannot be streamed or parsed or the id lookup raises,
\* listLanguages returns an empty list whenever storage.getLanguageFiles
\* raises, loadLanguage returns null whenever the language file cannot be
\* read or parsed; none of the three raises and none changes the storage.
C11_SoftFailures ==
    [][\A c \in Callers :
           (pc[c] = "idle" /\ pc'[c] = "done"
            /\ path'[c] \in {"loadLibrary", "listLanguages", "loadLanguage"})
           => /\ value'[c] # Raised
              /\ result'[c] # "raised"
              /\ UNCHANGED <<libs, json, files>>
              /\ (path'[c] = "loadLibrary" /\ fault'[c] # "none")
                     => value'[c].kind = "undefined"
              /\ (path'[c] = "loadLibrary" /\ fault'[c] = "none")
                     => /\ value'[c].kind = "metadata"
                        /\ value'[c].metadata # Undefined
              /\ path'[c] = "listLanguages"
                     => /\ value'[c].kind = "list"
                        /\ fault'[c] # "none" => value'[c].codes = <<>>
              /\ (path'[c] = "loadLanguage" /\ fault'[c] # "none")
                     => value'[c].kind = "null"
              /\ (path'[c] = "loadLanguage" /\ fault'[c] = "none")
                     => value'[c].kind = "json"]_vars

\* C11 witness: library.json of the library is readable and the id lookup
\* raised: loadLibrary returned undefined.
C11_Witness ==
    /\ pc[1] = "done"
    /\ path[1] = "loadLibrary"
    /\ fault[1] = "getId"
    /\ storageLibraryJson(libs, json, lib[1]) # NoJson
    /\ value[1].kind = "undefined"


\* ------------------------------------------------------------ getInstalled
\* The libraries of the listing specification: two machine names, two
\* minor versions, every patch.
InstalledLibraries ==
    {l \in QueryLibraries : l.majorVersion = 1}

\* The runnable flag and the title a library.json may hold.
Infos ==
    {[runnable |-> 1, title |-> "One"], [runnable |-> 0, title |-> "Two"]}

\* The machineNames arguments of getInstalled: none, one name, both.
NameArguments ==
    {{}, {"H5P.A"}, {"H5P.B"}, {"H5P.A", "H5P.B"}}

\* Any storage of up to MaxRecs records, several of one line included, each
\* with a readable library.json of its own patch, runnable flag and title.
InitInstalled ==
    /\ \E n \in 0..MaxRecs :
           \E content \in [1..n -> InstalledLibraries], info \in [1..n -> Infos] :
               /\ libs = {RecordOf(content[i], i) : i \in 1..n}
               /\ json = [i \in 1..MaxRecs |->
                             IF i <= n
                             THEN [MetadataOf(content[i], <<>>, <<>>)
                                     EXCEPT !.runnable = info[i].runnable,
                                            !.title = info[i].title]
                             ELSE NoJson]
    /\ files = [i \in 1..MaxRecs |-> {}]
    /\ InitCalls({1})

\* getInstalled(...machineNames) returned its mapping, or raised on a
\* record whose library.json loadLibrary could not load.
GetInstalled(c, names) ==
    /\ pc[c] = "idle"
    /\ pc' = [pc EXCEPT ![c] = "done"]
    /\ path' = [path EXCEPT ![c] = "getInstalled"]
    /\ LET raises == getInstalledRaises(libs, json, names)
       IN  /\ result' = [result EXCEPT ![c] = IF raises THEN "raised" ELSE "none"]
           /\ err' = [err EXCEPT ![c] = IF raises THEN TypeError ELSE NoErr]
           /\ value' = [value EXCEPT ![c] =
                           IF raises THEN [Raised EXCEPT !.names = names]
                           ELSE [NoValue EXCEPT
                                    !.kind = "installed", !.names = names,
                                    !.installed = getInstalled(libs, json, names)]]
    /\ UNCHANGED <<libs, json, files, staging, lib, pend, fault, log,
                   prePatches, again, preId, preFiles, removeFailed, kv, config>>

NextInstalled ==
    \E c \in Callers, names \in NameArguments : GetInstalled(c, names)

SpecInstalled ==
    InitInstalled /\ [][NextInstalled]_vars

\* The records storage.getInstalled lists for the given machine names.
Listed(names) ==
    {r \in libs : names = {} \/ r.machineName \in names}

\* The places of a returned mapping: key and index in the key's list.
Places(got) ==
    UNION {{<<n, k>> : k \in DOMAIN got[n]} : n \in DOMAIN got}

\* The element of the mapping at a place is the stored record r, refreshed
\* from its library.json and placed under its machine name.
Refreshed(got, place, r) ==
    LET x == got[place[1]][place[2]]
    IN  /\ place[1] = r.machineName
        /\ x.machineName = r.machineName
        /\ x.majorVersion = r.majorVersion
        /\ x.minorVersion = r.minorVersion
        /\ x.patchVersion = json[r.id].patchVersion
        /\ x.runnable = json[r.id].runnable
        /\ x.title = json[r.id].title
        /\ x.id = storageGetId(libs, r)

\* C21 -- getInstalled returns a mapping that holds exactly the records
\* the storage listed, each once, each under the key of its machine name
\* and carrying the patchVersion, runnable and title of its library.json
\* and the id loadLibrary attached; no key has an empty list; each list is
\* ascending by major, minor and refreshed patch version.
C21_GetInstalled ==
    \A c \in Callers :
        (pc[c] = "done" /\ path[c] = "getInstalled" /\ result[c] # "raised")
        => LET got == value[c].installed
           IN  /\ \A n \in DOMAIN got : got[n] # <<>>
               /\ \E f \in [Places(got) -> Listed(value[c].names)] :
                      /\ \A p, q \in Places(got) : f[p] = f[q] => p = q
                      /\ \A r \in Listed(value[c].names) :
                             \E p \in Places(got) : f[p] = r
                      /\ \A p \in Places(got) : Refreshed(got, p, f[p])
               /\ \A n \in DOMAIN got : \A i, j \in DOMAIN got[n] :
                      i < j => ~VersionBelow(got[n][j], got[n][i])

\* C21 witness: the storage lists patch 2 of a line before patch 1 of the
\* same line: the list returned for the machine name starts with patch 1
\* and carries the title of that record's library.json.
C21_Witness ==
    /\ pc[1] = "done"
    /\ path[1] = "getInstalled"
    /\ value[1].names = {"H5P.A"}
    /\ DOMAIN value[1].installed = {"H5P.A"}
    /\ Len(value[1].installed["H5P.A"]) = 2
    /\ json[1].patchVersion = 2
    /\ json[2].patchVersion = 1
    /\ json[1].title # json[2].title
    /\ value[1].installed["H5P.A"][1].patchVersion = 1
    /\ value[1].installed["H5P.A"][1].title = json[2].title


\* ------------------------------------------- unreadable library.json
\* The staging directories of the specification with unreadable records:
\* a complete library of line 1.0 of H5P.A, in every patch.
UnreadableStagings ==
    {d \in Stagings : d.meta.minorVersion = 0
                      /\ d.files = {"library.json", "LICENSE", "a.js", "a.css"}}

\* The candidates of the queries.
UnreadableCandidates ==
    {l \in QueryLibraries :
        l.majorVersion = 1 /\ l.minorVersion = 0
        /\ (l.machineName = "H5P.B" => l.patchVersion = 1)}

\* What the storage holds of one line: nothing, a record with a readable
\* library.json, a record whose library.json cannot be read.
LineStates == {"absent", "readable", "unreadable"}

\* Line 1.0 of H5P.A absent, readable (patch 1, no preloaded files) or
\* unreadable, under id 1; line 1.1 absent or unreadable, under id 2.
InitUnreadable ==
    /\ \E s0 \in LineStates, s1 \in {"absent", "unreadable"} :
           LET l0 == [machineName |-> "H5P.A", majorVersion |-> 1,
                      minorVersion |-> 0, patchVersion |-> 1, id |-> 0]
               l1 == [l0 EXCEPT !.minorVersion = 1]
           IN  /\ libs = (IF s0 = "absent" THEN {} ELSE {RecordOf(l0, 1)})
                         \cup (IF s1 = "absent" THEN {} ELSE {RecordOf(l1, 2)})
               /\ json = [i \in Ids |->
                             IF i = 1 /\ s0 = "readable"
                             THEN MetadataOf(l0, <<>>, <<>>)
                             ELSE NoJson]
    /\ files = [i \in Ids |-> {}]
    /\ InitCalls({1})

NextUnreadable ==
    \E c \in Callers :
        \/ \E d \in UnreadableStagings : Start(c, d)
        \/ InstallLibrary(c)
        \/ InstallLibraryFails(c)
        \/ UpdateLibrary(c)
        \/ UpdateLibraryFails(c)
        \/ ClearLibraryFiles(c)
        \/ ClearLibraryFilesFails(c)
        \/ \E f \in AssetPaths : AddLibraryFile(c, f)
        \/ \E f \in AssetPaths : AddLibraryFileFails(c, f)
        \/ \E f \in AssetPaths, ok \in BOOLEAN : LateAddLibraryFile(c, f, ok)
        \/ CheckConsistency(c)
        \/ \E kind \in {"storage", "unreadable"} : CheckConsistencyFails(c, kind)
        \/ RemoveLibrary(c)
        \/ RemoveLibraryFails(c)
        \/ Return(c)
        \/ \E names \in NameArguments : GetInstalled(c, names)
        \/ \E candidate \in UnreadableCandidates : QueryIsPatchedLibrary(c, candidate)
        \/ \E candidate \in UnreadableCandidates : QueryLibraryHasUpgrade(c, candidate)

SpecUnreadable ==
    InitUnreadable /\ [][NextUnreadable]_vars

\* The storage lists, for the given machine names, a record whose
\* library.json cannot be read.
Unreadable(names) ==
    \E r \in Listed(names) : json[r.id] = NoJson

\* C22 -- Unreadable metadata makes enumeration fail: when the storage
\* lists a record whose library.json cannot be loaded, getInstalled raises
\* (and only then); isPatchedLibrary and libraryHasUpgrade for that machine
\* name raise too; installFromDirectory for an installed line of that
\* machine name raises without a storage call that changes anything.
C22_Unreadable ==
    [][\A c \in Callers :
           (pc[c] = "idle" /\ pc'[c] # "idle")
           => /\ path'[c] = "getInstalled"
                     => (result'[c] = "raised" <=> Unreadable(value'[c].names))
              /\ (/\ path'[c] \in {"isPatchedLibrary", "libraryHasUpgrade"}
                  /\ Unreadable({lib'[c].machineName}))
                     => /\ result'[c] = "raised"
                        /\ pc'[c] = "done"
              /\ (/\ path'[c] \in {"none", "update", "install", "skip"}
                  /\ \E r \in libs : SameLine(r, lib'[c])
                  /\ Unreadable({lib'[c].machineName}))
                     => /\ pc'[c] = "done"
                        /\ result'[c] = "raised"
                        /\ err'[c] = TypeError
                        /\ log'[c] = <<>>
                        /\ pend'[c] = {}
              /\ UNCHANGED <<libs, json, files>>]_vars

\* C22 witness: line 1.0 is installed and readable, line 1.1 of the same
\* machine name is unreadable: installFromDirectory of a patch of line 1.0
\* raised with no storage call made and the storage as it was.
C22_Witness ==
    /\ pc[1] = "done"
    /\ path[1] = "none"
    /\ result[1] = "raised"
    /\ err[1] = TypeError
    /\ log[1] = <<>>
    /\ staging[1].meta.patchVersion = 2
    /\ \E r \in libs : SameLine(r, lib[1]) /\ json[r.id].patchVersion = 1
    /\ \E r \in libs : ~SameLine(r, lib[1]) /\ json[r.id] = NoJson


\* ------------------------------------------------ rollback that fails
\* The removeLibrary call of caller c's catch block settles in this step by
\* raising: the error the caller holds changes with the call.
RemoveRaises(c) ==
    /\ pc[c] = "rollback"
    /\ log'[c] = Append(log[c], Entry("removeLibrary", ""))
    /\ err'[c] # err[c]

\* C23 -- Rollback failure masks the original error: when removeLibrary
\* raises in the catch block of a failed install or update, the call ends
\* at once raising removeLibrary's error instead of the error that started
\* the rollback, removeLibrary was called exactly once, and the storage is
\* left as it was (the record may still be there).
C23_RollbackRaises ==
    [][\A c \in Callers :
           RemoveRaises(c)
           => /\ pc'[c] = "done"
              /\ result'[c] = "raised"
              /\ fault[c] \in FallibleSteps
              /\ err[c] # NoErr
              /\ err'[c] = [kind |-> "removeFailed", missing |-> <<>>]
              /\ Cardinality(Calls(c, "removeLibrary")) = 0
              /\ UNCHANGED <<libs, json, files>>]_vars

\* No call makes a second attempt to remove: a finished or running call has
\* called removeLibrary at most once, and a call that ended with
\* removeLibrary's error has called it once.
C23_OneRemoval ==
    \A c \in Callers :
        /\ Cardinality(Calls(c, "removeLibrary")) <= 1
        /\ err[c].kind = "removeFailed"
               => /\ pc[c] = "done"
                  /\ result[c] = "raised"
                  /\ Cardinality(Calls(c, "removeLibrary")) = 1

\* C23 witness: an update failed, removeLibrary raised, the caller holds
\* removeLibrary's error and the record is still in the storage.
C23_Witness ==
    /\ pc[1] = "done"
    /\ path[1] = "update"
    /\ result[1] = "raised"
    /\ err[1].kind = "removeFailed"
    /\ fault[1] = "checkConsistency"
    /\ Cardinality(Calls(1, "removeLibrary")) = 1
    /\ getId(libs, lib[1]) # 0


\* ------------------------------------------------- overlapping installs
\* The staging directories of the overlapping calls: a complete library of
\* line 1.0 of H5P.A, in every patch.
ConcurrentStagings ==
    UnreadableStagings

\* Two callers on one manager and an empty storage, each making one call;
\* the calls overlap: every await of one call is a point where the other
\* call may run.
InitConcurrent ==
    /\ InitStorage
    /\ InitCalls({1, 2})

NextConcurrent ==
    \E c \in Callers :
        \/ \E d \in ConcurrentStagings : Start(c, d)
        \/ InstallLibrary(c)
        \/ InstallLibraryFails(c)
        \/ UpdateLibrary(c)
        \/ UpdateLibraryFails(c)
        \/ ClearLibraryFiles(c)
        \/ ClearLibraryFilesFails(c)
        \/ \E f \in AssetPaths : AddLibraryFile(c, f)
        \/ \E f \in AssetPaths : AddLibraryFileFails(c, f)
        \/ \E f \in AssetPaths, ok \in BOOLEAN : LateAddLibraryFile(c, f, ok)
        \/ CheckConsistency(c)
        \/ \E kind \in {"storage", "unreadable"} : CheckConsistencyFails(c, kind)
        \/ RemoveLibrary(c)
        \/ RemoveLibraryFails(c)

SpecConcurrent ==
    InitConcurrent /\ [][NextConcurrent]_vars

\* C24 -- No mutual exclusion on install: a call that finds getId absent
\* takes the install path whatever another call is doing, also when the
\* other call is between its own getId test and its installLibrary for the
\* same line; and a call on the install path calls storage.installLibrary
\* as its next storage call, without a second test, whatever the storage
\* holds by then.
C24_NoMutualExclusion ==
    [][\A c \in Callers :
           /\ (pc[c] = "idle" /\ pc'[c] # "idle" /\ getId(libs, lib'[c]) = 0)
                  => /\ pc'[c] = "install"
                     /\ path'[c] = "install"
                     /\ UNCHANGED <<libs, json, files>>
           /\ (pc[c] = "install" /\ pc'[c] # "install")
                  => log'[c] = <<Entry("installLibrary", "")>>]_vars

\* C24 witness: both callers found getId absent for the same line, the
\* first has installed it and is still copying, and the second has called
\* storage.installLibrary for it all the same.
C24_Witness ==
    /\ SameLine(lib[1], lib[2])
    /\ preId[1] = 0 /\ preId[2] = 0
    /\ path[1] = "install" /\ path[2] = "install"
    /\ pc[1] = "copy"
    /\ getId(libs, lib[1]) # 0
    /\ Called(1, "installLibrary")
    /\ Called(2, "installLibrary")


\* ---------------------------------------------------- run to completion
\* The staging directories of the fair specification: line 1.0 of H5P.A in
\* every patch, complete or with a preloaded file missing.
FairStagings ==
    {d \in Stagings :
        /\ d.meta.minorVersion = 0
        /\ d.files \in {{"library.json", "LICENSE", "a.js", "a.css"},
                        {"library.json", "a.js"}}}

\* The storage operation (or consistency check) caller c is awaiting
\* completes: it returns or it raises.
Completes(c) ==
    \/ InstallLibrary(c)
    \/ InstallLibraryFails(c)
    \/ UpdateLibrary(c)
    \/ UpdateLibraryFails(c)
    \/ ClearLibraryFiles(c)
    \/ ClearLibraryFilesFails(c)
    \/ \E f \in AssetPaths : AddLibraryFile(c, f)
    \/ \E f \in AssetPaths : AddLibraryFileFails(c, f)
    \/ CheckConsistency(c)
    \/ \E kind \in {"storage", "unreadable"} : CheckConsistencyFails(c, kind)
    \/ RemoveLibrary(c)
    \/ RemoveLibraryFails(c)

NextFair ==
    \E c \in Callers :
        \/ \E d \in FairStagings : Start(c, d)
        \/ Completes(c)
        \/ \E f \in AssetPaths, ok \in BOOLEAN : LateAddLibraryFile(c, f, ok)
        \/ Return(c)

\* One caller on an empty storage; every storage operation a call awaits
\* eventually completes.
SpecFair ==
    /\ Init
    /\ [][NextFair]_vars
    /\ \A c \in Callers : WF_vars(Completes(c))

\* The steps of installFromDirectory between its branch and its outcome.
Intermediate ==
    {"install", "update", "clear", "copy", "check", "rollback"}

\* C25 as stated -- every started installFromDirectory call eventually
\* ends, and it ends returning true, returning false, or raising after the
\* rollback attempt (removeLibrary was called).
C25_AsStated ==
    \A c \in Callers :
        /\ (pc[c] \in Intermediate) ~> (pc[c] = "done")
        /\ [](pc[c] = "done"
                 => \/ result[c] = "true"
                    \/ result[c] = "false"
                    \/ result[c] = "raised" /\ Called(c, "removeLibrary"))

\* C25 -- Run to completion: when every storage operation completes, a
\* started installFromDirectory call eventually ends, never staying in an
\* intermediate step, with exactly one outcome: it returned true after a
\* consistency check that passed, it returned false without a storage call,
\* or it raised, after one removeLibrary call when a step inside the try
\* block failed and without one when storage.installLibrary raised.
C25_RunToCompletion ==
    \A c \in Callers :
        /\ (pc[c] \in Intermediate) ~> (pc[c] = "done")
        /\ [](pc[c] = "done"
                 => \/ /\ result[c] = "true"
                       /\ path[c] \in {"install", "update"}
                       /\ fault[c] = "none"
                       /\ Called(c, "checkConsistency")
                       /\ ~Called(c, "removeLibrary")
                    \/ /\ result[c] = "false"
                       /\ path[c] = "skip"
                       /\ log[c] = <<>>
                    \/ /\ result[c] = "raised"
                       /\ fault[c] \in FallibleSteps \ {"installLibrary"}
                       /\ Cardinality(Calls(c, "removeLibrary")) = 1
                    \/ /\ result[c] = "raised"
                       /\ fault[c] = "installLibrary"
                       /\ path[c] = "install"
                       /\ ~Called(c, "removeLibrary"))

\* C25 witness: a call went through update, clear, copy and a failing
\* consistency check, and ended raising after its rollback.
C25_Witness ==
    /\ pc[1] = "done"
    /\ path[1] = "update"
    /\ result[1] = "raised"
    /\ fault[1] = "checkConsistency"
    /\ Called(1, "clearLibraryFiles")
    /\ Called(1, "addLibraryFile")
    /\ Called(1, "removeLibrary")


\* ------------------------------------------- configuration round trip
\* The values a caller gives a user-configurable setting.
SettingValues(name) ==
    CASE name = "fetchingDisabled" -> {"0", "1"}
      [] name = "uuid" -> {"''", "'8de62c47'"}
      [] name = "siteType" -> {"'local'", "''"}
      [] name = "sendUsageStatistics" -> {"false", "true"}
      [] name = "contentTypeCacheRefreshInterval" -> {"86400000", "0"}
      [] name = "enableLrsContentTypes" -> {"true", "false"}

\* The caller's config operation: its other fields stay.
Configure(c, op) ==
    /\ pc[c] = "idle"
    /\ path' = [path EXCEPT ![c] = op]
    /\ UNCHANGED <<libs, json, files, pc, staging, lib, pend, result, err,
                   fault, log, prePatches, again, preId, preFiles, value,
                   removeFailed>>

\* new H5PEditorConfig(storage)
Construct(c) ==
    /\ Configure(c, "construct")
    /\ config' = [config EXCEPT ![c] = Defaults]
    /\ kv' = kv

\* The caller changes a user-configurable setting of its config object.
Assign(c, name, v) ==
    /\ Configure(c, "assign")
    /\ config[c] # NoConfig
    /\ config[c][name] # v
    /\ config' = [config EXCEPT ![c][name] = v]
    /\ kv' = kv

Save(c) ==
    /\ Configure(c, "save")
    /\ config[c] # NoConfig
    /\ kv' = save(kv, config[c])
    /\ config' = config

Load(c) ==
    /\ Configure(c, "load")
    /\ config[c] # NoConfig
    /\ config' = [config EXCEPT ![c] = load(kv, config[c])]
    /\ kv' = kv

NextConfig ==
    \E c \in Callers :
        \/ Construct(c)
        \/ \E name \in UserSettings : \E v \in SettingValues(name) : Assign(c, name, v)
        \/ Save(c)
        \/ Load(c)

\* One caller, its config objects one after the other over one storage
\* that starts empty.
InitConfig ==
    /\ InitStorage
    /\ InitCalls({1})

SpecConfig ==
    InitConfig /\ [][NextConfig]_vars

\* A save has stored the six settings.
Saved ==
    \A name \in UserSettings : kv[name] # "undefined"

\* C26 as stated -- Configuration round-trip: after a save, load on a
\* freshly constructed config over the same storage sets each of the six
\* user-configurable settings to the saved value, false, 0 and the empty
\* string included, and leaves every other setting at its constructor
\* default.
C26_AsStated ==
    [][\A c \in Callers :
           (Saved /\ path[c] = "construct" /\ path'[c] = "load")
           => /\ \A name \in UserSettings : config'[c][name] = kv[name]
              /\ \A name \in FixedSettings : config'[c][name] = Defaults[name]]_vars

====
